---- MODULE Spec2Model ----
(***************************************************************************)
(* spacectl: the credential store (internal/config), the authenticated     *)
(* transport (internal/api/client.go) and the commands that drive them.    *)
(*                                                                         *)
(* Spec        one process after another, each running one command:        *)
(*             config.Load, the command's guard, Client.doRequest with its *)
(*             401 -> refreshToken -> retry sequence, the command's tail.  *)
(*             runLogout and runGithubLogin (cmd/github_login.go) with its *)
(*             callback server are commands of Spec too.                   *)
(* SpecConfig  Config.UpdateTokens / ClearAuth / Save / Load on their own. *)
(* SpecHandle  Client.handleResponse as a function of (status, body).      *)
(* SpecGithub  processes that run `login --github` only; SpecGithubFair    *)
(*             with the main goroutine scheduled.                          *)
(* SpecFormat  Formatter.FormatData for table and CSV, on lists of records *)
(*             (internal/output/formatter.go).                             *)
(***************************************************************************)
EXTENDS Integers, Sequences, FiniteSets, TLC

VARIABLES
    cfg,      \* the process's *config.Config (cmd/root.go: var cfg)
    disk,     \* the file ~/.spacectl
    pc,       \* where the running command stands
    cmd,      \* the command this process runs
    req,      \* the *http.Request doRequest built
    wire,     \* the calls of httpClient.Do made by this process, in order
    ret,      \* what doRequest returned: [resp, err]
    out,      \* the command's outcome (the error RunE returns, "" for nil)
    cycle,    \* the refresh cycle of this process: how refreshToken ended
    prev,     \* the previous process's failed refresh cycle, if any
    ncmd,     \* processes started so far
    start,    \* the config as the process loaded it and the file it found
    lastOp,   \* SpecConfig: the last Config method called, with its arguments
    hrIn,     \* SpecHandle: the response handed to handleResponse
    hrOut,    \* SpecHandle: the error handleResponse returned
    fileHist, \* SpecConfig: what the last Save wrote and what Load returned since
    saveHow,  \* how the command's own call of cfg.Save ended, None before it
    srv,      \* runGithubLogin: the *http.Server startCallbackServer returned
    tokenChan, \* runGithubLogin: the values buffered in tokenChan
    sends,    \* the sends on tokenChan that have completed
    calls,    \* the requests made to /callback, in order of arrival
    serveErr, \* the goroutine around server.Serve: has it sent an error
    result,   \* runGithubLogin: the case select took, with the value received
    entry,    \* runGithubLogin: the bind's outcome, cfg and the file at its start
    fmtIn,    \* SpecFormat: the Formatter (format, noHeaders) and the data to render
    fmtOut,   \* SpecFormat: what FormatData wrote and returned
    redIn,    \* SpecRedact: the bytes handed to redactSensitiveJSON
    redOut,   \* SpecRedact: the bytes redactSensitiveJSON returned
    gor,      \* SpecConcurrent: each goroutine's position in its call of doRequest
    posts,    \* SpecConcurrent: the refresh requests sent, in order
    order     \* SpecConcurrent: the goroutines in the order their refreshToken returned

vars == <<cfg, disk, pc, cmd, req, wire, ret, out, cycle, prev, ncmd, start,
          lastOp, hrIn, hrOut, fileHist,
          saveHow, srv, tokenChan, sends, calls, serveErr, result, entry,
          fmtIn, fmtOut, redIn, redOut, gor, posts, order>>

\* the variables of one specification, for the frame of the others
transportVars == <<pc, cmd, req, wire, ret, out, cycle, prev, ncmd, start>>
configVars    == <<lastOp, fileHist>>
handleVars    == <<hrIn, hrOut>>
serverVars    == <<srv, tokenChan, sends, calls, serveErr, result, entry>>
githubVars    == <<saveHow, serverVars>>
formatVars    == <<fmtIn, fmtOut>>
redactVars    == <<redIn, redOut>>
concVars      == <<gor, posts, order>>

----------------------------------------------------------------------------
(* Bounds *)

\* processes (command invocations) run one after another
MaxCommands == 2

\* requests made to /callback during one runGithubLogin
MaxCallbacks == 2

\* records in a list handed to FormatData
MaxRecords == 2

\* containers nested in a JSON document handed to redactSensitiveJSON
MaxDepth == 3

(* Values the inputs are drawn from.  "" is Go's empty string. *)
OldAccess  == "a0"
OldRefresh == "r0"
OldEmail   == "e0"
NewAccess  == "a1"
NewRefresh == "r1"
NewEmail   == "e1"

None == "None"

----------------------------------------------------------------------------
(* internal/config: Config *)

\* DefaultConfig()
DefaultConfig ==
    [APIURL |-> "http://localhost:8080", AccessToken |-> "", RefreshToken |-> "",
     UserEmail |-> "", DefaultCloud |-> "eks", DefaultRegion |-> "eu",
     DefaultCompute |-> 2, DefaultMemory |-> 4]

\* var config Config: Go's zero value
ZeroConfig ==
    [APIURL |-> "", AccessToken |-> "", RefreshToken |-> "", UserEmail |-> "",
     DefaultCloud |-> "", DefaultRegion |-> "", DefaultCompute |-> 0,
     DefaultMemory |-> 0]

IsAuthenticatedOnlyAccess(c) == c.AccessToken # ""

\* (c *Config) IsAuthenticated()
IsAuthenticated(c) == c.AccessToken # "" /\ c.RefreshToken # ""

ClearAuthKeepsEmail(c) == [c EXCEPT !.AccessToken = "", !.RefreshToken = ""]

\* (c *Config) ClearAuth()
ClearAuth(c) == [c EXCEPT !.AccessToken = "", !.RefreshToken = "", !.UserEmail = ""]

\* (c *Config) UpdateTokens(accessToken, refreshToken, userEmail)
UpdateTokens(c, accessToken, refreshToken, userEmail) ==
    [c EXCEPT !.AccessToken = accessToken, !.RefreshToken = refreshToken,
              !.UserEmail = userEmail]

(* The struct tags of Config: the JSON key of each field, and the fields    *)
(* tagged omitempty.                                                         *)
ConfigTag ==
    [APIURL |-> "api_url", AccessToken |-> "access_token",
     RefreshToken |-> "refresh_token", UserEmail |-> "user_email",
     DefaultCloud |-> "default_cloud", DefaultRegion |-> "default_region",
     DefaultCompute |-> "default_compute", DefaultMemory |-> "default_memory"]

ConfigFields == DOMAIN ConfigTag

OmitEmpty == {"DefaultCloud", "DefaultRegion", "DefaultCompute", "DefaultMemory"}

\* the field whose tag is key k
FieldOfKey(k) == CHOOSE f \in ConfigFields : ConfigTag[f] = k

\* json.MarshalIndent(c, "", "  "): the object written, key -> value; a field
\* tagged omitempty is left out when it holds its zero value
MarshalConfig(c) ==
    LET kept == {f \in ConfigFields : ~(f \in OmitEmpty /\ c[f] = ZeroConfig[f])}
    IN  [k \in {ConfigTag[f] : f \in kept} |-> c[FieldOfKey(k)]]

UnmarshalOntoDefault(doc) ==
    [f \in ConfigFields |->
        IF ConfigTag[f] \in DOMAIN doc THEN doc[ConfigTag[f]] ELSE DefaultConfig[f]]

\* json.Unmarshal(data, &config) into a zero Config: a key of the object sets
\* its field, a field without a key keeps the zero value
UnmarshalConfig(doc) ==
    [f \in ConfigFields |->
        IF ConfigTag[f] \in DOMAIN doc THEN doc[ConfigTag[f]] ELSE ZeroConfig[f]]

(* The file: absent, an object as Save wrote it, or text json.Unmarshal     *)
(* rejects (what a failed os.WriteFile leaves after truncating the file).   *)
NoDoc == [k \in {} |-> ""]
FileAbsent  == [state |-> "absent", doc |-> NoDoc]
FileCorrupt == [state |-> "corrupt", doc |-> NoDoc]
FileOf(c)   == [state |-> "json", doc |-> MarshalConfig(c)]

\* How Save can end: "ok"; "unchanged" (MkdirAll or opening the file failed);
\* "truncated" (os.WriteFile opened the file with O_TRUNC and the write failed)
SaveOutcomes == {"ok", "unchanged", "truncated"}

SaveNeverWrites(c, d, how) == d

\* (c *Config) Save(): the file afterwards
Save(c, d, how) ==
    CASE how = "ok"        -> FileOf(c)
      [] how = "unchanged" -> d
      [] how = "truncated" -> FileCorrupt

SaveErrNil(how) == ""

\* (c *Config) Save(): the error returned ("" for nil)
SaveErr(how) == IF how = "ok" THEN "" ELSE "failed to write config file"

\* Load(): the error returned
LoadErr(d) == IF d.state = "corrupt" THEN "failed to parse config file" ELSE ""

\* Load(): the Config returned when LoadErr(d) = ""
Load(d) == IF d.state = "absent" THEN DefaultConfig ELSE UnmarshalConfig(d.doc)

----------------------------------------------------------------------------
(* encoding/json as the transport uses it.  A body is its bytes (text) and  *)
(* what a JSON parser makes of them: "whole" (one JSON value, val),         *)
(* "prefix" (one JSON value, val, followed by more text) or "no".           *)

JV(type, s, obj) == [type |-> type, s |-> s, obj |-> obj]
JStr(s)   == JV("string", s, NoDoc)
JNum(s)   == JV("number", s, NoDoc)
JNull     == JV("null", "", NoDoc)
JArr      == JV("array", "", NoDoc)
JObj(obj) == JV("object", "", obj)

Body(text, valid, val) == [text |-> text, valid |-> valid, val |-> val]

\* the member k of an object value, JNull when there is none: a struct field
\* decoded from an absent key and from null both keep the zero value
Member(val, k) ==
    IF val.type = "object" /\ k \in DOMAIN val.obj THEN val.obj[k] ELSE JNull

\* a Go string field decoded from member k
StrField(val, k) == IF Member(val, k).type = "string" THEN Member(val, k).s ELSE ""

\* decoding val into a struct whose string fields are strKeys and whose struct
\* fields are objKeys fails with an UnmarshalTypeError
TypeErr(val, strKeys, objKeys) ==
    \/ val.type \notin {"object", "null"}
    \/ \E k \in strKeys : Member(val, k).type \notin {"string", "null"}
    \/ \E k \in objKeys : Member(val, k).type \notin {"object", "null"}

\* json.Unmarshal(body, &v) returns an error: the bytes must be one JSON value,
\* of a type that fits v (typeErr: it does not)
UnmarshalFails(body, typeErr) == body.valid # "whole" \/ typeErr

\* json.NewDecoder(r).Decode(&v) returns an error: it decodes the first JSON
\* value of the stream and does not look at what follows
DecodeFails(body, typeErr) == body.valid = "no" \/ typeErr

\* models.LoginResponse as decoded from a JSON value
LoginResponseOf(val) ==
    [AccessToken  |-> StrField(val, "access_token"),
     RefreshToken |-> StrField(val, "refresh_token"),
     Email        |-> StrField(Member(val, "user"), "email")]

LoginStrKeys == {"access_token", "refresh_token"}
LoginObjKeys == {"user"}

\* models.ErrorResponse.Error as decoded from a JSON value
ErrorResponseOf(val) == StrField(val, "error")

\* decoding val into a models.LoginResponse fails with an UnmarshalTypeError
LoginTypeErr(val) ==
    \/ TypeErr(val, LoginStrKeys, LoginObjKeys)
    \/ TypeErr(Member(val, "user"), {"email"}, {})

----------------------------------------------------------------------------
(* net/http as Client uses it *)

\* the Authorization header of a request
NoHeader  == [set |-> FALSE, value |-> <<>>]
Bearer(t) == [set |-> TRUE, value |-> <<"Bearer ", t>>]

NoBody == [text |-> None, valid |-> "no", val |-> JNull]
NoResp == [status |-> 0, body |-> NoBody]
NoReq  == [method |-> None, path |-> None, body |-> None, drained |-> FALSE,
           auth |-> NoHeader]

\* http.NewRequest(method, c.baseURL+path, reqBody): reqBody is a bytes.Buffer
\* over the marshalled body (nil for a nil body), read from its start
NewRequest(method, path, body) ==
    [method |-> method, path |-> path, body |-> body, drained |-> FALSE,
     auth |-> NoHeader]

(* httpClient.Do(req) writes the request.  The body is read from req.Body,   *)
(* the bytes.Buffer, which a first Do leaves at its end.  A Do of a request  *)
(* whose buffer is drained finds 0 bytes where ContentLength announces      *)
(* len(body): on a new connection the transport gives up with               *)
(* "http: ContentLength=N with Body length 0" before a byte is sent; on a   *)
(* reused idle connection the transport takes that for a write that never   *)
(* started, asks req.GetBody for a fresh reader and sends the whole body.   *)
Conns == {"new", "reused"}

\* Do(req) gives up before sending
DoFailsUnsent(r, conn) == r.body # None /\ r.drained /\ conn = "new"

\* the body bytes Do(req) puts on the wire when it sends
DoSendsBody(r, conn) == r.body

\* req after Do(req) has written it
AfterDo(r) == [r EXCEPT !.drained = (r.body # None)]

\* what a call of httpClient.Do returned
Pending     == [got |-> "pending", resp |-> NoResp]
GotError    == [got |-> "error", resp |-> NoResp]
Got(resp)   == [got |-> "response", resp |-> resp]

(* One call of httpClient.Do as the log keeps it: kind "orig" (doRequest's  *)
(* request, attempt 1 or 2) or "refresh" (refreshToken's request, token its *)
(* payload); held is c.config.AccessToken when Do is called.                *)
Sent(kind, attempt, r, conn, token, held) ==
    [kind |-> kind, attempt |-> attempt, method |-> r.method, path |-> r.path,
     auth |-> r.auth,
     body |-> IF DoFailsUnsent(r, conn) THEN None ELSE DoSendsBody(r, conn),
     delivered |-> ~DoFailsUnsent(r, conn),
     token |-> token, held |-> held,
     answer |-> IF DoFailsUnsent(r, conn) THEN GotError ELSE Pending]

\* the log after the Do called last has returned
Answered(w, a) == [w EXCEPT ![Len(w)].answer = a]

----------------------------------------------------------------------------
(* The commands: cmd/whoami.go, cmd/org.go (create), cmd/login.go *)

Commands == {"whoami", "org create", "login"}

\* the guard on whoami alone
GuardedWhoamiOnly(k) == k \in {"whoami"}

\* commands that start with: if !cfg.IsAuthenticated() { return error }
Guarded(k) == k \in {"whoami", "org create"}

CmdMethod(k) == IF k = "whoami" THEN "GET" ELSE "POST"

CmdPath(k) ==
    CASE k = "whoami"     -> "/api/v1/user/info"
      [] k = "org create" -> "/api/v1/organizations"
      [] k = "login"      -> "/api/v1/user/login"

\* the marshalled body: GetUserInfo passes nil
CmdBody(k) ==
    CASE k = "whoami"     -> None
      [] k = "org create" -> "{\"name\":\"n\"}"
      [] k = "login"      -> "{\"email\":\"e\",\"password\":\"p\"}"

\* decoding val into the struct the command hands to handleResponse
\* (models.User, models.Organization, models.LoginResponse) fails
ResultTypeErr(k, val) ==
    CASE k = "whoami"     -> TypeErr(val, {"id", "email", "provider"}, {"preferences"})
      [] k = "org create" -> TypeErr(val, {"id", "name"}, {})
      [] k = "login"      -> LoginTypeErr(val)

----------------------------------------------------------------------------
(* internal/api/client.go: Client *)

Creds(c) ==
    [AccessToken |-> c.AccessToken, RefreshToken |-> c.RefreshToken,
     UserEmail |-> c.UserEmail]

\* doRequest, first attempt: the Authorization header
FirstAuth(c) == IF c.AccessToken # "" THEN Bearer(c.AccessToken) ELSE NoHeader

\* doRequest, retry: the Authorization header
RetryAuth(c) == Bearer(c.AccessToken)

\* a doRequest that starts a refresh cycle on every 401
ShouldRefreshOnAny401(resp, c) == resp.status = 401

\* doRequest: the condition under which a response starts a refresh cycle
ShouldRefresh(resp, c) == resp.status = 401 /\ c.RefreshToken # ""

\* refreshToken: the request it builds, without Authorization header; the
\* payload is models.RefreshTokenRequest{RefreshToken: c.config.RefreshToken}
RefreshRequest == NewRequest("POST", "/api/v1/user/refresh", "{\"refresh_token\":...}")

\* refreshToken without its call of UpdateTokens
RefreshTokenKeepsTokens(c, d, resp, how) ==
    IF resp.status # 200
    THEN [cfg |-> ClearAuth(c), disk |-> Save(ClearAuth(c), d, how),
          err |-> "session expired"]
    ELSE IF DecodeFails(resp.body, LoginTypeErr(resp.body.val))
    THEN [cfg |-> c, disk |-> d, err |-> "failed to decode refresh response"]
    ELSE [cfg |-> c, disk |-> Save(c, d, how),
          err |-> IF SaveErr(how) # "" THEN "failed to save updated config" ELSE ""]

\* refreshToken dropping the error of its second Save as it drops the first's
RefreshTokenIgnoresSaveError(c, d, resp, how) ==
    IF resp.status # 200
    THEN [cfg |-> ClearAuth(c), disk |-> Save(ClearAuth(c), d, how),
          err |-> "session expired"]
    ELSE IF DecodeFails(resp.body, LoginTypeErr(resp.body.val))
    THEN [cfg |-> c, disk |-> d, err |-> "failed to decode refresh response"]
    ELSE LET lr == LoginResponseOf(resp.body.val)
             c2 == UpdateTokens(c, lr.AccessToken, lr.RefreshToken, lr.Email)
         IN  [cfg |-> c2, disk |-> Save(c2, d, how), err |-> ""]

(* refreshToken from the response of the refresh endpoint on: the Config and *)
(* the file afterwards and the error returned.                               *)
RefreshToken(c, d, resp, how) ==
    IF resp.status # 200
    THEN [cfg |-> ClearAuth(c), disk |-> Save(ClearAuth(c), d, how),
          err |-> "session expired"]
    ELSE IF DecodeFails(resp.body, LoginTypeErr(resp.body.val))
    THEN [cfg |-> c, disk |-> d, err |-> "failed to decode refresh response"]
    ELSE LET lr == LoginResponseOf(resp.body.val)
             c2 == UpdateTokens(c, lr.AccessToken, lr.RefreshToken, lr.Email)
         IN  [cfg |-> c2, disk |-> Save(c2, d, how),
              err |-> IF SaveErr(how) # "" THEN "failed to save updated config"
                      ELSE ""]

(* handleResponse(resp, result): the error returned.  readOK: io.ReadAll    *)
(* read the body; hasResult: result != nil; typeErr: the body's JSON value  *)
(* does not fit *result.                                                    *)
NoError == [kind |-> "nil", status |-> 0, msg |-> ""]
APIError(status, msg) == [kind |-> "API error", status |-> status, msg |-> msg]

HandleResponse(resp, readOK, hasResult, typeErr) ==
    IF ~readOK
    THEN [kind |-> "failed to read response body", status |-> 0, msg |-> ""]
    ELSE IF resp.status >= 200 /\ resp.status < 300
    THEN IF hasResult /\ UnmarshalFails(resp.body, typeErr)
         THEN [kind |-> "failed to unmarshal response", status |-> 0, msg |-> ""]
         ELSE NoError
    ELSE IF ~UnmarshalFails(resp.body, TypeErr(resp.body.val, {"error"}, {}))
    THEN APIError(resp.status, ErrorResponseOf(resp.body.val))
    ELSE APIError(resp.status, resp.body.text)

----------------------------------------------------------------------------
(* Spec: the processes *)

Statuses == {200, 401, 403}

BodyTokens ==
    Body("{\"access_token\":\"a1\",\"refresh_token\":\"r1\",\"user\":{\"email\":\"e1\"}}",
         "whole",
         JObj([k \in {"access_token", "refresh_token", "user"} |->
                 CASE k = "access_token"  -> JStr(NewAccess)
                   [] k = "refresh_token" -> JStr(NewRefresh)
                   [] k = "user" -> JObj([e \in {"email"} |-> JStr(NewEmail)])]))

BodyAccessOnly ==
    Body("{\"access_token\":\"a1\"}", "whole",
         JObj([k \in {"access_token"} |-> JStr(NewAccess)]))

BodyEmptyObject == Body("{}", "whole", JObj(NoDoc))

BodyErrorEnvelope ==
    Body("{\"error\":\"boom\"}", "whole", JObj([k \in {"error"} |-> JStr("boom")]))

BodyHTML == Body("<html>", "no", JNull)

RespBodies == {BodyTokens, BodyAccessOnly, BodyEmptyObject, BodyErrorEnvelope, BodyHTML}

Responses == [status : Statuses, body : RespBodies]

NoRet   == [resp |-> NoResp, err |-> ""]
NoCreds == [AccessToken |-> "", RefreshToken |-> "", UserEmail |-> ""]
NoCycle == [state |-> "none", why |-> "", before |-> NoCreds, resp |-> NoResp,
            how |-> None]
NoPrev  == [failed |-> FALSE, before |-> NoCreds]

\* a file as an earlier login left it
LoggedIn == UpdateTokens(DefaultConfig, OldAccess, OldRefresh, OldEmail)

NotHandled == [kind |-> "pending", status |-> 0, msg |-> ""]

\* no Save and no Load has happened
NoHist == [saved |-> FALSE, value |-> ZeroConfig, loads |-> <<>>]

\* the variables of SpecConfig, where another specification leaves them
InitConfigIdle ==
    /\ lastOp = [op |-> None, args |-> <<>>]
    /\ fileHist = NoHist

\* the variables of SpecHandle, where another specification leaves them
InitHandleIdle ==
    /\ hrIn = [resp |-> NoResp, readOK |-> TRUE, hasResult |-> FALSE]
    /\ hrOut = NotHandled

\* runGithubLogin has not run
NoEntry == [bind |-> "none", cfg |-> ZeroConfig, disk |-> FileAbsent]

InitGithubIdle ==
    /\ saveHow = None
    /\ srv = "nil"
    /\ tokenChan = <<>>
    /\ sends = 0
    /\ calls = <<>>
    /\ serveErr = "none"
    /\ result = [from |-> "none", val |-> [accessToken |-> "", refreshToken |-> "",
                                           userEmail |-> "", err |-> ""]]
    /\ entry = NoEntry

\* a process that does not run runGithubLogin has none of its state
ResetGithub ==
    /\ srv' = "nil"
    /\ tokenChan' = <<>>
    /\ sends' = 0
    /\ calls' = <<>>
    /\ serveErr' = "none"
    /\ result' = [from |-> "none", val |-> [accessToken |-> "", refreshToken |-> "",
                                            userEmail |-> "", err |-> ""]]
    /\ entry' = NoEntry

\* FormatData has not been called
NotFormatted ==
    [done |-> FALSE, err |-> "", text |-> "", hasHeader |-> FALSE, header |-> <<>>,
     rows |-> <<>>]

\* the variables of SpecFormat, where another specification leaves them
InitFormatIdle ==
    /\ fmtIn = [format |-> None, noHeaders |-> FALSE, data |-> [kind |-> None]]
    /\ fmtOut = NotFormatted

NotRedacted == [done |-> FALSE, raw |-> [t |-> None]]

\* the variables of SpecRedact, where another specification leaves them
InitRedactIdle ==
    /\ redIn = [t |-> None]
    /\ redOut = NotRedacted

\* the goroutines that call doRequest on one Client
Goroutines == {1, 2}

\* a goroutine: where it stands, the status of its first response, how its
\* refresh request was answered, the next field UpdateTokens or ClearAuth
\* assigns, the config Save marshalled and how Save ended, and the token of
\* the retry's Authorization header
NoGoroutine ==
    [pc |-> "none", first |-> 0, outcome |-> "none", field |-> 0, data |-> None,
     how |-> None, auth |-> None]

\* the variables of SpecConcurrent, where another specification leaves them
InitConcIdle ==
    /\ gor = [t \in Goroutines |-> NoGoroutine]
    /\ posts = <<>>
    /\ order = <<>>

\* the variables of SpecConfig, SpecHandle, SpecFormat, SpecRedact and
\* SpecConcurrent, which Spec leaves alone
InitOther ==
    /\ InitConfigIdle
    /\ InitHandleIdle
    /\ InitFormatIdle
    /\ InitRedactIdle
    /\ InitConcIdle

NoStart == [cfg |-> ZeroConfig, disk |-> FileAbsent]

\* PersistentPreRunE: the config a new process holds, loaded from file d
\* (the zero Config when loading fails), and the file
Started(d) == [cfg |-> IF LoadErr(d) # "" THEN ZeroConfig ELSE Load(d), disk |-> d]

\* no process has run
InitIdle ==
    /\ pc = "exit"
    /\ cmd = None
    /\ req = NoReq
    /\ wire = <<>>
    /\ ret = NoRet
    /\ out = ""
    /\ cycle = NoCycle
    /\ prev = NoPrev
    /\ ncmd = 0
    /\ start = NoStart

Init ==
    /\ disk \in {FileAbsent, FileOf(LoggedIn)}
    /\ cfg = ZeroConfig
    /\ InitIdle
    /\ InitOther
    /\ InitGithubIdle

(* A new process: PersistentPreRunE loads the config, the command checks    *)
(* its guard and calls doRequest, which builds the request and sends it.    *)
RunCommand(k) ==
    /\ pc = "exit"
    /\ ncmd < MaxCommands
    /\ ncmd' = ncmd + 1
    /\ start' = Started(disk)
    /\ cmd' = k
    /\ prev' = IF cycle.state = "failed"
               THEN [failed |-> TRUE, before |-> cycle.before] ELSE NoPrev
    /\ cycle' = NoCycle
    /\ ret' = NoRet
    /\ IF LoadErr(disk) # ""
       THEN /\ cfg' = ZeroConfig
            /\ out' = "failed to load config"
            /\ pc' = "exit"
            /\ req' = NoReq
            /\ wire' = <<>>
       ELSE IF Guarded(k) /\ ~IsAuthenticated(Load(disk))
       THEN /\ cfg' = Load(disk)
            /\ out' = "not authenticated"
            /\ pc' = "exit"
            /\ req' = NoReq
            /\ wire' = <<>>
       ELSE LET r == [NewRequest(CmdMethod(k), CmdPath(k), CmdBody(k))
                        EXCEPT !.auth = FirstAuth(Load(disk))]
            IN  /\ cfg' = Load(disk)
                /\ out' = "running"
                /\ pc' = "first"
                /\ req' = AfterDo(r)
                /\ wire' = <<Sent("orig", 1, r, "new", "", Load(disk).AccessToken)>>
    /\ saveHow' = None
    /\ ResetGithub
    /\ UNCHANGED <<disk, configVars, handleVars, formatVars, redactVars, concVars>>

\* doRequest: the first Do returns a response
FirstResponse(resp) ==
    /\ pc = "first"
    /\ IF ShouldRefresh(resp, cfg)
       THEN /\ wire' = Append(Answered(wire, Got(resp)),
                              Sent("refresh", 1, RefreshRequest, "reused",
                                   cfg.RefreshToken, cfg.AccessToken))
            /\ cycle' = [state |-> "running", why |-> "", before |-> Creds(cfg),
                         resp |-> NoResp, how |-> None]
            /\ pc' = "refresh"
            /\ UNCHANGED ret
       ELSE /\ ret' = [resp |-> resp, err |-> ""]
            /\ pc' = "returned"
            /\ wire' = Answered(wire, Got(resp))
            /\ UNCHANGED cycle
    /\ UNCHANGED <<cfg, disk, cmd, req, out, prev, ncmd, start, configVars, handleVars, formatVars, redactVars, concVars, githubVars>>

\* doRequest: the first Do returns an error
FirstTransportError ==
    /\ pc = "first"
    /\ ret' = [resp |-> NoResp, err |-> "request failed"]
    /\ pc' = "returned"
    /\ wire' = Answered(wire, GotError)
    /\ UNCHANGED <<cfg, disk, cmd, req, out, cycle, prev, ncmd, start, configVars, handleVars, formatVars, redactVars, concVars, githubVars>>

(* doRequest: the refresh endpoint answers.  refreshToken runs to its end; *)
(* on success doRequest sets the Authorization header again and calls Do   *)
(* on the same request a second time.                                      *)
RefreshResponse(resp, how, conn) ==
    /\ pc = "refresh"
    /\ LET rt   == RefreshToken(cfg, disk, resp, how)
           r    == [req EXCEPT !.auth = RetryAuth(rt.cfg)]
           done == [state |-> IF rt.err = "" THEN "ok" ELSE "failed",
                    why |-> rt.err, before |-> cycle.before, resp |-> resp,
                    how |-> how]
       IN  /\ cfg' = rt.cfg
           /\ disk' = rt.disk
           /\ cycle' = done
           /\ IF rt.err # ""
              THEN /\ ret' = [resp |-> NoResp, err |-> "authentication failed"]
                   /\ pc' = "returned"
                   /\ wire' = Answered(wire, Got(resp))
                   /\ UNCHANGED req
              ELSE /\ req' = AfterDo(r)
                   /\ wire' = Append(Answered(wire, Got(resp)),
                                     Sent("orig", 2, r, conn, "", rt.cfg.AccessToken))
                   /\ IF DoFailsUnsent(r, conn)
                      THEN /\ ret' = [resp |-> NoResp, err |-> "retry request failed"]
                           /\ pc' = "returned"
                      ELSE /\ pc' = "retry"
                           /\ UNCHANGED ret
    /\ UNCHANGED <<cmd, out, prev, ncmd, start, configVars, handleVars, formatVars, redactVars, concVars, githubVars>>

\* doRequest: the Do of refreshToken returns an error
RefreshTransportError ==
    /\ pc = "refresh"
    /\ cycle' = [cycle EXCEPT !.state = "failed", !.why = "refresh request failed"]
    /\ ret' = [resp |-> NoResp, err |-> "authentication failed"]
    /\ pc' = "returned"
    /\ wire' = Answered(wire, GotError)
    /\ UNCHANGED <<cfg, disk, cmd, req, out, prev, ncmd, start, configVars, handleVars, formatVars, redactVars, concVars, githubVars>>

\* doRequest that answers a 401 to its retry with one more refresh cycle
RetryResponseRefreshesAgain(resp) ==
    /\ pc = "retry"
    /\ IF ShouldRefresh(resp, cfg) /\ Len(wire) < 5
       THEN /\ wire' = Append(Answered(wire, Got(resp)),
                              Sent("refresh", 1, RefreshRequest, "reused",
                                   cfg.RefreshToken, cfg.AccessToken))
            /\ pc' = "refresh"
            /\ UNCHANGED ret
       ELSE /\ ret' = [resp |-> resp, err |-> ""]
            /\ pc' = "returned"
            /\ wire' = Answered(wire, Got(resp))
    /\ UNCHANGED <<cfg, disk, cmd, req, out, cycle, prev, ncmd, start, configVars, handleVars, formatVars, redactVars, concVars, githubVars>>

\* doRequest: the second Do returns a response
RetryResponse(resp) ==
    /\ pc = "retry"
    /\ ret' = [resp |-> resp, err |-> ""]
    /\ pc' = "returned"
    /\ wire' = Answered(wire, Got(resp))
    /\ UNCHANGED <<cfg, disk, cmd, req, out, cycle, prev, ncmd, start, configVars, handleVars, formatVars, redactVars, concVars, githubVars>>

\* doRequest: the second Do returns an error
RetryTransportError ==
    /\ pc = "retry"
    /\ ret' = [resp |-> NoResp, err |-> "retry request failed"]
    /\ pc' = "returned"
    /\ wire' = Answered(wire, GotError)
    /\ UNCHANGED <<cfg, disk, cmd, req, out, cycle, prev, ncmd, start, configVars, handleVars, formatVars, redactVars, concVars, githubVars>>

(* The command after doRequest returned: the API method hands the response *)
(* to handleResponse; runLogin stores the tokens and saves the config.     *)
Finish(readOK, how) ==
    /\ pc = "returned"
    /\ pc' = "exit"
    /\ LET e == IF ret.err # "" THEN [kind |-> ret.err, status |-> 0, msg |-> ""]
                ELSE HandleResponse(ret.resp, readOK, TRUE,
                                    ResultTypeErr(cmd, ret.resp.body.val))
           lr == LoginResponseOf(ret.resp.body.val)
           c2 == UpdateTokens(cfg, lr.AccessToken, lr.RefreshToken, lr.Email)
       IN  IF e # NoError
           THEN /\ out' = IF cmd = "login" THEN "login failed" ELSE "failed"
                /\ UNCHANGED <<cfg, disk, saveHow>>
           ELSE IF cmd = "login"
           THEN /\ cfg' = c2
                /\ disk' = Save(c2, disk, how)
                /\ saveHow' = how
                /\ out' = IF SaveErr(how) # "" THEN "failed to save config" ELSE ""
           ELSE /\ out' = ""
                /\ UNCHANGED <<cfg, disk, saveHow>>
    /\ UNCHANGED <<cmd, req, wire, ret, cycle, prev, ncmd, start, configVars, handleVars, formatVars, redactVars, concVars,
                   serverVars>>

----------------------------------------------------------------------------
(* cmd/logout.go and cmd/github_login.go: the commands that store          *)
(* credentials without going through doRequest.                            *)

\* a new process resets what the previous one left in memory
ResetTransport ==
    /\ req' = NoReq
    /\ wire' = <<>>
    /\ ret' = NoRet
    /\ cycle' = NoCycle
    /\ prev' = IF cycle.state = "failed"
               THEN [failed |-> TRUE, before |-> cycle.before] ELSE NoPrev

\* runLogout: ClearAuth, then Save
RunLogout(how) ==
    /\ pc = "exit"
    /\ ncmd < MaxCommands
    /\ ncmd' = ncmd + 1
    /\ start' = Started(disk)
    /\ cmd' = "logout"
    /\ pc' = "exit"
    /\ ResetTransport
    /\ ResetGithub
    /\ IF LoadErr(disk) # ""
       THEN /\ cfg' = ZeroConfig
            /\ out' = "failed to load config"
            /\ saveHow' = None
            /\ UNCHANGED disk
       ELSE /\ cfg' = ClearAuth(Load(disk))
            /\ disk' = Save(cfg', disk, how)
            /\ saveHow' = how
            /\ out' = IF SaveErr(how) # "" THEN "failed to save config" ELSE ""
    /\ UNCHANGED <<configVars, handleVars, formatVars, redactVars, concVars>>

\* the struct tokenChan carries: tokens, or an error ("" for nil)
TokenResult(accessToken, refreshToken, userEmail, err) ==
    [accessToken |-> accessToken, refreshToken |-> refreshToken,
     userEmail |-> userEmail, err |-> err]

ErrResult(err) == TokenResult("", "", "", err)

\* make(chan ..., 1)
ChanCap == 1

CanSendUnbuffered(ch) == Len(ch) < 0

\* a send on tokenChan can proceed: the buffer has room (a receiver parked in
\* select takes the value at once, which leaves the buffer as it was)
CanSend(ch) == Len(ch) < ChanCap

\* the methods of the requests made to /callback
Methods == {"POST", "OPTIONS", "GET"}

\* the payload the backend's redirect page posts
BodyCallback ==
    Body("{\"access_token\":\"a1\",\"refresh_token\":\"r1\",\"user_email\":\"e1\"}",
         "whole",
         JObj([access_token |-> JStr(NewAccess), refresh_token |-> JStr(NewRefresh),
               user_email |-> JStr(NewEmail)]))

Payloads == {BodyCallback, BodyEmptyObject, BodyHTML}

\* the handler's tokenResponse struct
CallbackTypeErr(val) == TypeErr(val, {"access_token", "refresh_token", "user_email"}, {})

\* the value the /callback handler sends for a POST with this payload
CallbackResult(payload) ==
    IF DecodeFails(payload, CallbackTypeErr(payload.val))
    THEN ErrResult("failed to parse token response")
    ELSE TokenResult(StrField(payload.val, "access_token"),
                     StrField(payload.val, "refresh_token"),
                     StrField(payload.val, "user_email"), "")

CallbackStatusAlways200(payload) == 200

\* the status the /callback handler answers a POST with, after its send
CallbackStatus(payload) ==
    IF DecodeFails(payload, CallbackTypeErr(payload.val)) THEN 400 ELSE 200

\* a request to /callback: st is "blocked" while the handler waits to send on
\* tokenChan, "answered" once it has written its status
Call(method, payload, st, status, pushed) ==
    [method |-> method, payload |-> payload, st |-> st, status |-> status,
     pushed |-> pushed]

NoResult == [from |-> "none", val |-> ErrResult("")]

(* runGithubLogin up to the call of GetGithubAuthURL: the channel is made  *)
(* and startCallbackServer binds the port (bindOK) or sends the startup    *)
(* error and returns nil.  At "gh_bind" startCallbackServer is blocked in  *)
(* that send, which a channel with room in its buffer never is.            *)
RunGithubLogin(bindOK) ==
    /\ pc = "exit"
    /\ ncmd < MaxCommands
    /\ ncmd' = ncmd + 1
    /\ start' = Started(disk)
    /\ cmd' = "login --github"
    /\ ResetTransport
    /\ calls' = <<>>
    /\ serveErr' = "none"
    /\ result' = NoResult
    /\ saveHow' = None
    /\ IF LoadErr(disk) # ""
       THEN /\ cfg' = ZeroConfig
            /\ out' = "failed to load config"
            /\ pc' = "exit"
            /\ srv' = "nil"
            /\ tokenChan' = <<>>
            /\ sends' = 0
            /\ entry' = NoEntry
       ELSE /\ cfg' = Load(disk)
            /\ out' = "running"
            /\ entry' = [bind |-> IF bindOK THEN "ok" ELSE "failed",
                         cfg |-> Load(disk), disk |-> disk]
            /\ IF bindOK
               THEN /\ srv' = "serving"
                    /\ tokenChan' = <<>>
                    /\ sends' = 0
                    /\ pc' = "gh_url"
               ELSE IF CanSend(<<>>)
               THEN /\ srv' = "nil"
                    /\ tokenChan' = <<ErrResult("failed to start callback server")>>
                    /\ sends' = 1
                    /\ pc' = "gh_url"
               ELSE /\ srv' = "nil"
                    /\ tokenChan' = <<>>
                    /\ sends' = 0
                    /\ pc' = "gh_bind"
    /\ UNCHANGED <<disk, configVars, handleVars, formatVars, redactVars, concVars>>

GhFrame == UNCHANGED <<cmd, req, wire, ret, cycle, prev, ncmd, start, entry, configVars, handleVars, formatVars, redactVars, concVars>>

\* GetGithubAuthURL returns: with the URL (the browser is opened or the URL
\* printed), or with an error, which runGithubLogin returns at once
GhAuthURL(ok) ==
    /\ pc = "gh_url"
    /\ IF ok
       THEN /\ pc' = "gh_select"
            /\ UNCHANGED out
       ELSE /\ pc' = "exit"
            /\ out' = "failed to get GitHub auth URL"
    /\ UNCHANGED <<cfg, disk, srv, tokenChan, sends, calls, serveErr, result, saveHow>>
    /\ GhFrame

\* select: case result := <-tokenChan
GhReceive ==
    /\ pc = "gh_select"
    /\ tokenChan # <<>>
    /\ result' = [from |-> "chan", val |-> Head(tokenChan)]
    /\ tokenChan' = Tail(tokenChan)
    /\ pc' = "gh_shutdown"
    /\ UNCHANGED <<cfg, disk, out, srv, sends, calls, serveErr, saveHow>>
    /\ GhFrame

\* a select without the timer case
GhWaitsForever ==
    /\ pc = "gh_select"
    /\ tokenChan = <<>>
    /\ FALSE
    /\ UNCHANGED vars

\* select: case <-time.After(5 * time.Minute), with nothing on the channel
GhTimeout ==
    /\ pc = "gh_select"
    /\ tokenChan = <<>>
    /\ result' = [from |-> "timer", val |-> ErrResult("")]
    /\ pc' = "gh_shutdown"
    /\ UNCHANGED <<cfg, disk, out, srv, tokenChan, sends, calls, serveErr, saveHow>>
    /\ GhFrame

\* the body of the chosen case: server.Shutdown when server is not nil, then
\* the error, or UpdateTokens and Save
GhFinish(how) ==
    /\ pc = "gh_shutdown"
    /\ pc' = "exit"
    /\ srv' = IF srv # "nil" THEN "closed" ELSE srv
    /\ IF result.from = "timer"
       THEN /\ out' = "authentication timeout - please try again"
            /\ UNCHANGED <<cfg, disk, saveHow>>
       ELSE IF result.val.err # ""
       THEN /\ out' = "GitHub login failed"
            /\ UNCHANGED <<cfg, disk, saveHow>>
       ELSE /\ cfg' = UpdateTokens(cfg, result.val.accessToken,
                                    result.val.refreshToken, result.val.userEmail)
            /\ disk' = Save(cfg', disk, how)
            /\ saveHow' = how
            /\ out' = IF SaveErr(how) # "" THEN "failed to save config" ELSE ""
    /\ UNCHANGED <<tokenChan, sends, calls, serveErr, result>>
    /\ GhFrame

\* the process is running runGithubLogin
GhRunning == pc \in {"gh_url", "gh_select", "gh_shutdown"}

(* A request reaches the /callback handler while the listener accepts.     *)
(* OPTIONS is answered 200 and any other method but POST 405, without a    *)
(* send; a POST sends one value and is then answered, or blocks in the     *)
(* send while the buffer is full.                                          *)
Callback(method, payload) ==
    /\ GhRunning
    /\ srv = "serving"
    /\ Len(calls) < MaxCallbacks
    /\ IF method = "OPTIONS"
       THEN /\ calls' = Append(calls, Call(method, payload, "answered", 200, 0))
            /\ UNCHANGED <<tokenChan, sends>>
       ELSE IF method # "POST"
       THEN /\ calls' = Append(calls, Call(method, payload, "answered", 405, 0))
            /\ UNCHANGED <<tokenChan, sends>>
       ELSE IF CanSend(tokenChan)
       THEN /\ calls' = Append(calls, Call(method, payload, "answered",
                                           CallbackStatus(payload), 1))
            /\ tokenChan' = Append(tokenChan, CallbackResult(payload))
            /\ sends' = sends + 1
       ELSE /\ calls' = Append(calls, Call(method, payload, "blocked", 0, 0))
            /\ UNCHANGED <<tokenChan, sends>>
    /\ UNCHANGED <<cfg, disk, pc, out, srv, serveErr, result, saveHow>>
    /\ GhFrame

\* a handler blocked in its send goes on once the buffer has room
CallbackUnblock(i) ==
    /\ GhRunning
    /\ i \in DOMAIN calls
    /\ calls[i].st = "blocked"
    /\ CanSend(tokenChan)
    /\ calls' = [calls EXCEPT ![i] = Call(calls[i].method, calls[i].payload,
                                          "answered",
                                          CallbackStatus(calls[i].payload), 1)]
    /\ tokenChan' = Append(tokenChan, CallbackResult(calls[i].payload))
    /\ sends' = sends + 1
    /\ UNCHANGED <<cfg, disk, pc, out, srv, serveErr, result, saveHow>>
    /\ GhFrame

\* server.Serve returns an error other than ErrServerClosed: the listener is
\* closed and the goroutine sends the error, or blocks in the send
ServeError ==
    /\ GhRunning
    /\ srv = "serving"
    /\ srv' = "failed"
    /\ IF CanSend(tokenChan)
       THEN /\ tokenChan' = Append(tokenChan, ErrResult("callback server error"))
            /\ sends' = sends + 1
            /\ serveErr' = "sent"
       ELSE /\ serveErr' = "blocked"
            /\ UNCHANGED <<tokenChan, sends>>
    /\ UNCHANGED <<cfg, disk, pc, out, calls, result, saveHow>>
    /\ GhFrame

ServeErrorUnblock ==
    /\ GhRunning
    /\ serveErr = "blocked"
    /\ CanSend(tokenChan)
    /\ tokenChan' = Append(tokenChan, ErrResult("callback server error"))
    /\ sends' = sends + 1
    /\ serveErr' = "sent"
    /\ UNCHANGED <<cfg, disk, pc, out, srv, calls, result, saveHow>>
    /\ GhFrame

\* the steps of the main goroutine
GhMain ==
    \/ \E ok \in BOOLEAN : GhAuthURL(ok)
    \/ GhReceive
    \/ GhTimeout
    \/ \E how \in SaveOutcomes : GhFinish(how)

\* the steps of the server's goroutines
GhServer ==
    \/ \E method \in Methods, payload \in Payloads : Callback(method, payload)
    \/ \E i \in 1..MaxCallbacks : CallbackUnblock(i)
    \/ ServeError
    \/ ServeErrorUnblock

Next ==
    \/ \E k \in Commands : RunCommand(k)
    \/ \E how \in SaveOutcomes : RunLogout(how)
    \/ \E bindOK \in BOOLEAN : RunGithubLogin(bindOK)
    \/ GhMain
    \/ GhServer
    \/ \E resp \in Responses : FirstResponse(resp)
    \/ FirstTransportError
    \/ \E resp \in Responses, how \in SaveOutcomes, conn \in Conns :
          RefreshResponse(resp, how, conn)
    \/ RefreshTransportError
    \/ \E resp \in Responses : RetryResponse(resp)
    \/ RetryTransportError
    \/ \E readOK \in BOOLEAN, how \in SaveOutcomes : Finish(readOK, how)

Spec == Init /\ [][Next]_vars

(* SpecFair adds that every call of httpClient.Do returns, with a response  *)
(* or with an error: the client is built with Timeout: 30 * time.Second.    *)
DoReturns ==
    \/ \E resp \in Responses : FirstResponse(resp)
    \/ FirstTransportError
    \/ \E resp \in Responses, how \in SaveOutcomes, conn \in Conns :
          RefreshResponse(resp, how, conn)
    \/ RefreshTransportError
    \/ \E resp \in Responses : RetryResponse(resp)
    \/ RetryTransportError

SpecFair == Spec /\ WF_vars(DoReturns)

(* SpecGithub: processes that run `login --github` only.  SpecGithubFair    *)
(* adds that the main goroutine is scheduled: GetGithubAuthURL returns      *)
(* within its client's 30 s timeout, the select is left through the channel *)
(* or the 5 minute timer, and Shutdown returns when its 2 s context ends.   *)
NextGithub ==
    \/ \E bindOK \in BOOLEAN : RunGithubLogin(bindOK)
    \/ GhMain
    \/ GhServer

SpecGithub == Init /\ [][NextGithub]_vars

SpecGithubFair == SpecGithub /\ WF_vars(GhMain)

----------------------------------------------------------------------------
(* SpecConfig: the methods of Config called in any order *)

AccessTokens  == {"", OldAccess, NewAccess}
RefreshTokens == {"", OldRefresh, NewRefresh}
Emails        == {"", OldEmail}

\* TestSaveAndLoadRoundTrip's Config
TestConfig ==
    [APIURL |-> "https://api.example.com", AccessToken |-> "access-token",
     RefreshToken |-> "refresh-token", UserEmail |-> "user@example.com",
     DefaultCloud |-> "gke", DefaultRegion |-> "us-central1",
     DefaultCompute |-> 4, DefaultMemory |-> 16]

\* Config values a caller can build: the zero value, DefaultConfig(), the
\* test's, and values with some of the default_* fields zero
ConfigValues ==
    {ZeroConfig, DefaultConfig, TestConfig,
     [TestConfig EXCEPT !.DefaultCompute = 0, !.DefaultRegion = ""],
     [DefaultConfig EXCEPT !.APIURL = "", !.DefaultCloud = "", !.DefaultMemory = 0]}

InitConfig ==
    /\ cfg \in ConfigValues
    /\ disk = FileAbsent
    /\ InitConfigIdle
    /\ InitHandleIdle
    /\ InitFormatIdle
    /\ InitRedactIdle
    /\ InitConcIdle
    /\ InitGithubIdle
    /\ InitIdle

\* the last two results of Load since the file was written
LastTwo(loads, c) == IF loads = <<>> THEN <<c>> ELSE <<loads[Len(loads)], c>>

CfgFrame == UNCHANGED <<transportVars, handleVars, formatVars, redactVars, concVars, githubVars>>

CfgUpdateTokens(a, r, e) ==
    /\ cfg' = UpdateTokens(cfg, a, r, e)
    /\ lastOp' = [op |-> "UpdateTokens", args |-> <<a, r, e>>]
    /\ UNCHANGED <<disk, fileHist>>
    /\ CfgFrame

CfgClearAuth ==
    /\ cfg' = ClearAuth(cfg)
    /\ lastOp' = [op |-> "ClearAuth", args |-> <<>>]
    /\ UNCHANGED <<disk, fileHist>>
    /\ CfgFrame

CfgSave(how) ==
    /\ disk' = Save(cfg, disk, how)
    /\ lastOp' = [op |-> "Save", args |-> <<how>>]
    /\ fileHist' = CASE how = "ok"        -> [saved |-> TRUE, value |-> cfg, loads |-> <<>>]
                      [] how = "unchanged" -> fileHist
                      [] how = "truncated" -> NoHist
    /\ UNCHANGED cfg
    /\ CfgFrame

CfgLoad ==
    /\ LoadErr(disk) = ""
    /\ cfg' = Load(disk)
    /\ lastOp' = [op |-> "Load", args |-> <<>>]
    /\ fileHist' = [fileHist EXCEPT !.loads = LastTwo(fileHist.loads, cfg')]
    /\ UNCHANGED disk
    /\ CfgFrame

NextConfig ==
    \/ \E a \in AccessTokens, r \in RefreshTokens, e \in Emails : CfgUpdateTokens(a, r, e)
    \/ CfgClearAuth
    \/ \E how \in SaveOutcomes : CfgSave(how)
    \/ CfgLoad

SpecConfig == InitConfig /\ [][NextConfig]_vars

----------------------------------------------------------------------------
(* SpecHandle: handleResponse on one response *)

HandleStatuses == {200, 204, 299, 300, 401, 404, 500}

BodyMessageOnly ==
    Body("{\"message\":\"not found\"}", "whole",
         JObj([k \in {"message"} |-> JStr("not found")]))

BodyErrorNumber ==
    Body("{\"error\":5}", "whole", JObj([k \in {"error"} |-> JNum("5")]))

BodyNull == Body("null", "whole", JNull)

BodyString == Body("\"denied\"", "whole", JStr("denied"))

BodyArray == Body("[1]", "whole", JArr)

BodyEnvelopeThenText ==
    Body("{\"error\":\"boom\"} trailing", "prefix",
         JObj([k \in {"error"} |-> JStr("boom")]))

BodyEmpty == Body("", "no", JNull)

HandleBodies ==
    {BodyErrorEnvelope, BodyMessageOnly, BodyErrorNumber, BodyNull, BodyString,
     BodyArray, BodyEnvelopeThenText, BodyHTML, BodyEmpty, BodyEmptyObject}

InitHandle ==
    /\ hrIn \in [resp : [status : HandleStatuses, body : HandleBodies],
                 readOK : BOOLEAN, hasResult : BOOLEAN]
    /\ hrOut = NotHandled
    /\ InitConfigIdle
    /\ InitGithubIdle
    /\ InitFormatIdle
    /\ InitRedactIdle
    /\ InitConcIdle
    /\ cfg = ZeroConfig
    /\ disk = FileAbsent
    /\ InitIdle

\* GetUserInfo's tail: handleResponse(resp, &user), or handleResponse(resp, nil)
Handle ==
    /\ hrOut = NotHandled
    /\ hrOut' = HandleResponse(hrIn.resp, hrIn.readOK, hrIn.hasResult,
                               ResultTypeErr("whoami", hrIn.resp.body.val))
    /\ UNCHANGED <<cfg, disk, transportVars, configVars, githubVars, formatVars, redactVars, concVars, hrIn>>

NextHandle == Handle

SpecHandle == InitHandle /\ [][NextHandle]_vars

----------------------------------------------------------------------------
(* internal/output/formatter.go: table and CSV rendering.  A Renderable    *)
(* Record is a map[string]interface{}: a function from its keys to values. *)
(* What is written is kept as the calls made on the csv.Writer and the     *)
(* tablewriter: the header cells and the cells of each row.                *)

\* the keys of the records rendered, in the order sort.Strings puts them
\* (byte-wise: upper case before lower case)
KeyOrder == <<"ID", "is_default", "organization", "role", "theme", "welcome_dismissed">>

\* the keys of the map[string]interface{} values rendered
Keys == {"ID", "is_default", "organization", "role"}

Rank(k) == CHOOSE i \in DOMAIN KeyOrder : KeyOrder[i] = k

\* sort.Strings(keys)
RECURSIVE SortStrings(_)
SortStrings(S) ==
    IF S = {} THEN <<>>
    ELSE LET first == CHOOSE x \in S : \A y \in S : Rank(x) <= Rank(y)
         IN  <<first>> \o SortStrings(S \ {first})

\* hasKeys(m, keys...)
HasKeys(m, keys) == keys \subseteq DOMAIN m

SortedHeaders(record) == SortStrings(DOMAIN record)

\* getOrderedHeadersFromRecord(record)
GetOrderedHeadersFromRecord(record) ==
    IF HasKeys(record, {"organization", "role", "is_default"})
    THEN <<"organization", "role", "is_default">>
    ELSE IF HasKeys(record, {"cloud_provider", "region", "zone"})
    THEN <<"cloud_provider", "region", "zone">>
    ELSE IF HasKeys(record, {"version", "is_default"})
    THEN <<"version", "is_default">>
    ELSE IF HasKeys(record, {"name", "cloud_provider", "region", "kubernetes_version",
                             "compute_quota", "memory_quota_gb", "status"})
    THEN <<"name", "cloud_provider", "region", "kubernetes_version",
           "compute_quota", "memory_quota_gb", "status">>
    ELSE SortStrings(DOMAIN record)

\* strings.Title(key): the first letter of each word in upper case; "_" does
\* not separate words
Title(key) ==
    CASE key = "is_default"         -> "Is_default"
      [] key = "organization"       -> "Organization"
      [] key = "role"               -> "Role"
      [] key = "cloud_provider"     -> "Cloud_provider"
      [] key = "region"             -> "Region"
      [] key = "zone"               -> "Zone"
      [] key = "version"            -> "Version"
      [] key = "name"               -> "Name"
      [] key = "kubernetes_version" -> "Kubernetes_version"
      [] key = "compute_quota"      -> "Compute_quota"
      [] key = "memory_quota_gb"    -> "Memory_quota_gb"
      [] key = "status"             -> "Status"
      [] OTHER                      -> key

\* strings.ToLower(header)
ToLower(header) ==
    CASE header = "ID"                 -> "id"
      [] header = "Is_default"         -> "is_default"
      [] header = "Organization"       -> "organization"
      [] header = "Role"               -> "role"
      [] header = "Cloud_provider"     -> "cloud_provider"
      [] header = "Region"             -> "region"
      [] header = "Zone"               -> "zone"
      [] header = "Version"            -> "version"
      [] header = "Name"               -> "name"
      [] header = "Kubernetes_version" -> "kubernetes_version"
      [] header = "Compute_quota"      -> "compute_quota"
      [] header = "Memory_quota_gb"    -> "memory_quota_gb"
      [] header = "Status"             -> "status"
      [] OTHER                         -> header

\* the value record number i of the list holds under key k, and the nil
\* interface a map returns for a key it does not have
Val(i, k) == [nil |-> FALSE, rec |-> i, key |-> k]
Nil       == [nil |-> TRUE, rec |-> 0, key |-> ""]

\* record[key]
Lookup(record, key) == IF key \in DOMAIN record THEN record[key] ELSE Nil

\* fmt.Sprintf("%v", value): "<nil>" for the nil interface
Sprintf(value) == [text |-> IF value.nil THEN "<nil>" ELSE "%v", arg |-> value]

\* record number i with key set S
Rec(i, S) == [k \in S |-> Val(i, k)]

\* the lists of n records
ListsOf(n) == {[i \in 1..n |-> Rec(i, ks[i])] : ks \in [1..n -> SUBSET Keys]}

\* []map[string]interface{} values of up to MaxRecords records
Lists == UNION {ListsOf(n) : n \in 0..MaxRecords}

(* The values handed to FormatData, by what reflect and the type switches   *)
(* of convertToRecords see of them: a struct of a named type, a pointer to  *)
(* one (nil or not), a map[string]interface{}, a string, a slice of these.  *)
(* i numbers the value, as in Val.                                          *)
StructV(type, i) == [kind |-> "struct", type |-> type, i |-> i]
PtrV(type, i)    == [kind |-> "ptr", type |-> type, isNil |-> FALSE, i |-> i]
NilPtr(type)     == [kind |-> "ptr", type |-> type, isNil |-> TRUE, i |-> 0]
MapV(m)          == [kind |-> "map", m |-> m]
StringV          == [kind |-> "string"]
SliceV(items)    == [kind |-> "slice", items |-> items]

\* v.Kind() after `if v.Kind() == reflect.Ptr { v = v.Elem() }`: the Elem of
\* a nil pointer is the zero Value, of Kind Invalid
KindAfterElem(data) ==
    IF data.kind = "ptr" THEN (IF data.isNil THEN "invalid" ELSE "struct")
    ELSE data.kind

\* the types convertToRecords has a case for, with the keys of the record it
\* builds from them
CuratedTypes ==
    {"OrganizationMembershipResponse", "ProjectMembership", "Organization",
     "Project", "Location", "KubernetesVersion", "Tenant"}

CuratedKeys(type) ==
    CASE type = "OrganizationMembershipResponse" -> {"organization", "role", "is_default"}
      [] type = "ProjectMembership" -> {"project", "role"}
      [] type = "Organization"      -> {"id", "name"}
      [] type = "Project"           -> {"id", "name", "organization_id"}
      [] type = "Location"          -> {"cloud_provider", "region", "zone"}
      [] type = "KubernetesVersion" -> {"version", "is_default"}
      [] type = "Tenant"            -> {"name", "cloud_provider", "region",
                                        "kubernetes_version", "compute_quota",
                                        "memory_quota_gb", "status"}

\* the fields of the struct types that reach structToMap: name, json tag,
\* exported (models.UserPreferences)
StructFields(type) ==
    CASE type = "UserPreferences" ->
            <<[name |-> "WelcomeDismissed", tag |-> "welcome_dismissed", exported |-> TRUE],
              [name |-> "Theme", tag |-> "theme", exported |-> TRUE]>>
      [] OTHER -> <<>>

\* strings.Split(jsonTag, ",")[0], the field's name when that is empty
JsonName(field) ==
    CASE field.tag = "description,omitempty" -> "description"
      [] field.tag = ",omitempty"            -> field.name
      [] OTHER                               -> field.tag

\* structToMap(data): a struct, or a pointer to one, becomes the map of its
\* exported fields that carry a json tag other than "-"
StructToMap(data) ==
    IF KindAfterElem(data) # "struct"
    THEN [ok |-> FALSE, rec |-> <<>>]
    ELSE LET fields == StructFields(data.type)
             kept   == {n \in DOMAIN fields :
                           fields[n].exported /\ fields[n].tag \notin {"", "-"}}
         IN  [ok |-> TRUE,
              rec |-> [k \in {JsonName(fields[n]) : n \in kept} |-> Val(data.i, k)]]

\* convertToRecords, slice branch, one item: the type switch on the item.
\* skip: a nil pointer of a curated type adds no record
ConvertItem(item) ==
    IF item.kind \in {"struct", "ptr"} /\ item.type \in CuratedTypes
    THEN IF item.kind = "ptr" /\ item.isNil
         THEN [ok |-> TRUE, skip |-> TRUE, rec |-> <<>>]
         ELSE [ok |-> TRUE, skip |-> FALSE,
               rec |-> [k \in CuratedKeys(item.type) |-> Val(item.i, k)]]
    ELSE IF item.kind = "map"
    THEN [ok |-> TRUE, skip |-> FALSE, rec |-> item.m]
    ELSE [ok |-> StructToMap(item).ok, skip |-> FALSE, rec |-> StructToMap(item).rec]

Converted(records, err) == [records |-> records, err |-> err]

\* convertToRecords, slice branch: the items in order, up to the first error
RECURSIVE ConvertItems(_, _)
ConvertItems(items, records) ==
    IF items = <<>> THEN Converted(records, "")
    ELSE LET c == ConvertItem(Head(items))
         IN  IF ~c.ok THEN Converted(<<>>, "expected struct")
             ELSE ConvertItems(Tail(items),
                               IF c.skip THEN records ELSE Append(records, c.rec))

\* convertToRecords(data): the records and the error ("" for nil).  In the
\* struct branch the switch is on v.Interface() after Elem, a struct value:
\* its pointer cases and its map case never match
ConvertToRecords(data) ==
    CASE KindAfterElem(data) = "slice" -> ConvertItems(data.items, <<>>)
      [] KindAfterElem(data) = "struct" ->
            IF data.type \in CuratedTypes
            THEN Converted(<<[k \in CuratedKeys(data.type) |-> Val(data.i, k)]>>, "")
            ELSE IF StructToMap(data).ok
            THEN Converted(<<StructToMap(data).rec>>, "")
            ELSE Converted(<<>>, "expected struct")
      [] OTHER -> Converted(<<>>, "unsupported data type for table/CSV formatting")

\* the items of a slice of structs or pointers, at position i
TypedItems(i) ==
    {StructV("OrganizationMembershipResponse", i), PtrV("OrganizationMembershipResponse", i),
     NilPtr("OrganizationMembershipResponse"),
     StructV("UserPreferences", i), PtrV("UserPreferences", i), NilPtr("UserPreferences"),
     StringV}

\* the data handed to FormatData: []map[string]interface{}, slices of typed
\* items, and single values
DataValues ==
    {SliceV([i \in DOMAIN l |-> MapV(l[i])]) : l \in Lists}
    \cup UNION {{SliceV(items) : items \in {s \in [1..n -> UNION {TypedItems(i) : i \in 1..n}] :
                                                \A i \in 1..n : s[i] \in TypedItems(i)}}
                : n \in 1..MaxRecords}
    \cup TypedItems(1)
    \cup {MapV(Rec(1, S)) : S \in SUBSET Keys}

\* the orders in which `for _, value := range record` can visit a map
RangeOrders(record) ==
    {o \in [1..Cardinality(DOMAIN record) -> DOMAIN record] :
        \A i, j \in DOMAIN o : i # j => o[i] # o[j]}

\* one order of iteration for each record of the list
IterOrders(records) ==
    {os \in [DOMAIN records -> UNION {RangeOrders(records[i]) : i \in DOMAIN records}] :
        \A i \in DOMAIN records : os[i] \in RangeOrders(records[i])}

\* FormatData returned nil: the text written outside the rows, whether a
\* header row was written, its cells, and the cells of the data rows
Written(text, hasHeader, header, rows) ==
    [done |-> TRUE, err |-> "", text |-> text, hasHeader |-> hasHeader,
     header |-> header, rows |-> rows]

\* formatCSV: nothing for no records; else the header row unless noHeaders,
\* and one row per record: by header, or in the map's order of iteration
FormatCSV(records, noHeaders, orders) ==
    IF Len(records) = 0 THEN Written("", FALSE, <<>>, <<>>)
    ELSE LET headers == GetOrderedHeadersFromRecord(records[1])
         IN  IF ~noHeaders
             THEN Written("", TRUE, headers,
                          [i \in DOMAIN records |->
                              [j \in DOMAIN headers |->
                                  Sprintf(Lookup(records[i], headers[j]))]])
             ELSE Written("", FALSE, <<>>,
                          [i \in DOMAIN records |->
                              [j \in DOMAIN orders[i] |->
                                  Sprintf(records[i][orders[i][j]])]])

\* formatTable without the message for no records
FormatTableSilent(records) ==
    IF Len(records) = 0 THEN Written("", FALSE, <<>>, <<>>)
    ELSE LET keys    == GetOrderedHeadersFromRecord(records[1])
             headers == [j \in DOMAIN keys |-> Title(keys[j])]
         IN  Written("", TRUE, headers,
                     [i \in DOMAIN records |->
                         [j \in DOMAIN headers |->
                             Sprintf(Lookup(records[i], ToLower(headers[j])))]])

\* formatTable: "No data found" for no records; else table.SetHeader with the
\* title-cased keys and table.Append with one row per record, its cells
\* looked up under the lower-cased headers
FormatTable(records) ==
    IF Len(records) = 0 THEN Written("No data found\n", FALSE, <<>>, <<>>)
    ELSE LET keys    == GetOrderedHeadersFromRecord(records[1])
             headers == [j \in DOMAIN keys |-> Title(keys[j])]
         IN  Written("", TRUE, headers,
                     [i \in DOMAIN records |->
                         [j \in DOMAIN headers |->
                             Sprintf(Lookup(records[i], ToLower(headers[j])))]])

InitFormat ==
    /\ fmtIn \in [format : {"table", "csv"}, noHeaders : BOOLEAN, data : DataValues]
    /\ fmtOut = NotFormatted
    /\ InitRedactIdle
    /\ InitConcIdle
    /\ cfg = ZeroConfig
    /\ disk = FileAbsent
    /\ InitIdle
    /\ InitConfigIdle
    /\ InitHandleIdle
    /\ InitGithubIdle

\* (f *Formatter) FormatData(data) for FormatCSV and FormatTable
FormatData ==
    /\ ~fmtOut.done
    /\ LET records == ConvertToRecords(fmtIn.data).records
           err     == ConvertToRecords(fmtIn.data).err
       IN  IF err # ""
           THEN fmtOut' = [NotFormatted EXCEPT !.done = TRUE, !.err = err]
           ELSE IF fmtIn.format = "table"
           THEN fmtOut' = FormatTable(records)
           ELSE IF ~fmtIn.noHeaders
           THEN fmtOut' = FormatCSV(records, FALSE, <<>>)
           ELSE \E orders \in IterOrders(records) :
                   fmtOut' = FormatCSV(records, TRUE, orders)
    /\ UNCHANGED <<cfg, disk, transportVars, configVars, handleVars, githubVars, redactVars, concVars, fmtIn>>

NextFormat == FormatData

SpecFormat == InitFormat /\ [][NextFormat]_vars

----------------------------------------------------------------------------
(* The claims about Client.doRequest and Client.refreshToken, under Spec *)

WireIdx == 1..Len(wire)

\* the calls of Do that re-send doRequest's request
RetryIdx == {i \in WireIdx : wire[i].kind = "orig" /\ wire[i].attempt = 2}

DoRequestReturned == pc \in {"returned", "exit"}

\* what the refresh endpoint returned, as credentials
Refreshed ==
    LET lr == LoginResponseOf(cycle.resp.body.val)
    IN  [AccessToken |-> lr.AccessToken, RefreshToken |-> lr.RefreshToken,
         UserEmail |-> lr.Email]

\* C1: when the first response is 401, a refresh token is stored and the
\* refresh cycle succeeds, Do is called on the original request exactly once
\* more, with Authorization: Bearer <access token the refresh endpoint
\* returned>, and when that Do returns a response doRequest returns this
\* response and no error.
C1_RetryOnceWithNewToken ==
    cycle.state = "ok" =>
        /\ Len(wire) = 3
        /\ wire[1].kind = "orig" /\ wire[1].attempt = 1
        /\ wire[1].answer.got = "response" /\ wire[1].answer.resp.status = 401
        /\ cycle.before.RefreshToken # ""
        /\ wire[2].kind = "refresh"
        /\ RetryIdx = {3}
        /\ wire[3].auth = Bearer(Refreshed.AccessToken)
        /\ (DoRequestReturned /\ wire[3].answer.got = "response")
              => ret = [resp |-> wire[3].answer.resp, err |-> ""]

C1_Witness ==
    /\ cycle.state = "ok"
    /\ pc = "returned"
    /\ Refreshed.AccessToken = NewAccess
    /\ wire[1].auth = Bearer(OldAccess)
    /\ ret.err = "" /\ ret.resp.status = 200

\* C2 (as claimed): the request re-sent after a successful refresh is the
\* original one in method, URL and body: the retry delivers the body bytes of
\* the first attempt.
C2_RetryIdentical ==
    \A i \in RetryIdx :
        /\ wire[i].delivered
        /\ wire[i].method = wire[1].method
        /\ wire[i].path = wire[1].path
        /\ wire[i].body = wire[1].body

\* the refresh cycle ended and, by what the endpoint and the file system did,
\* it failed: transport failure, status other than 200, undecodable body, or
\* a save that fails
CycleFailed ==
    /\ cycle.state \in {"ok", "failed"}
    /\ \/ cycle.resp = NoResp
       \/ cycle.resp.status # 200
       \/ cycle.resp.body.valid = "no"
       \/ cycle.how # "ok"

\* C3: when the refresh cycle fails, doRequest returns an "authentication
\* failed" error and the original request is not sent again.
C3_FailedRefreshNoRetry ==
    CycleFailed =>
        /\ DoRequestReturned
        /\ ret = [resp |-> NoResp, err |-> "authentication failed"]
        /\ RetryIdx = {}
        /\ Len(wire) = 2

C3_Witness ==
    /\ pc = "returned"
    /\ cycle.resp = [status |-> 200, body |-> BodyTokens]
    /\ cycle.how = "truncated"
    /\ ret.err = "authentication failed"

\* C4: when the refresh endpoint answers with a status other than 200,
\* refreshToken wipes access token, refresh token and user email from the
\* Config in memory, IsAuthenticated() is false afterwards, and the error is
\* "session expired".
C4_Non200ClearsMemory ==
    (cycle.state \in {"ok", "failed"} /\ cycle.resp # NoResp /\ cycle.resp.status # 200)
        => /\ Creds(cfg) = NoCreds
           /\ ~IsAuthenticated(cfg)
           /\ cycle.why = "session expired"
           /\ ret.err = "authentication failed"

C4_Witness ==
    /\ pc = "returned"
    /\ cycle.resp.status = 403
    /\ cycle.before = Creds(LoggedIn)
    /\ cycle.why = "session expired"

\* the file holds a token of creds
DiskHolds(creds) ==
    /\ disk.state = "json"
    /\ \/ Load(disk).RefreshToken = creds.RefreshToken
       \/ creds.AccessToken # "" /\ Load(disk).AccessToken = creds.AccessToken

\* C5 (as claimed): whenever a refresh cycle ends in failure, the file no
\* longer holds the access or refresh token stored before the cycle.
C5_FailedRefreshWipesDisk ==
    cycle.state = "failed" => ~DiskHolds(cycle.before)

\* C6: whenever refreshToken returns success, the Config in memory and the
\* file both hold exactly the access token, refresh token and user email the
\* refresh endpoint returned; a failing save after a 200 answer makes
\* refreshToken return an error.
C6_SuccessIsPersisted ==
    /\ (cycle.state = "ok" /\ pc \in {"retry", "returned"})
          => /\ Creds(cfg) = Refreshed
             /\ disk.state = "json"
             /\ Creds(Load(disk)) = Refreshed
             /\ cycle.how = "ok"
    /\ (cycle.state \in {"ok", "failed"} /\ cycle.resp.status = 200 /\ cycle.how # "ok")
          => cycle.state = "failed" /\ cycle.why # ""

C6_Witness ==
    /\ cycle.state = "ok"
    /\ pc = "retry"
    /\ cycle.before = Creds(LoggedIn)
    /\ Refreshed = [AccessToken |-> NewAccess, RefreshToken |-> NewRefresh,
                    UserEmail |-> NewEmail]

\* C7 (as claimed): every request doRequest sends, first attempt and retry,
\* carries an Authorization header if and only if the access token held when
\* it is sent is non-empty, and the header is "Bearer " + that token.
C7_HeaderIffToken ==
    \A i \in WireIdx :
        wire[i].kind = "orig" =>
            /\ wire[i].auth.set <=> wire[i].held # ""
            /\ wire[i].auth.set => wire[i].auth = Bearer(wire[i].held)

\* C8 (as claimed): the command that follows a failed refresh cycle sends no
\* refresh request and no request bearing the old access token.
C8_NextCommandNoRepeat ==
    prev.failed =>
        \A i \in WireIdx :
            /\ wire[i].kind # "refresh"
            /\ ~(prev.before.AccessToken # ""
                 /\ wire[i].auth = Bearer(prev.before.AccessToken))

----------------------------------------------------------------------------
(* The claim about Client.handleResponse, under SpecHandle *)

\* the body is an {"error": "<message>"} envelope
IsEnvelope(body) ==
    /\ body.valid = "whole"
    /\ body.val.type = "object"
    /\ "error" \in DOMAIN body.val.obj
    /\ body.val.obj["error"].type = "string"

\* C9 (as claimed): for a response whose status is outside 200-299,
\* handleResponse returns an error that carries the status code; its message
\* is the "error" field when the body is an {"error": ...} envelope and the
\* raw body text in every other case.
C9_ErrorMessage ==
    (hrOut # NotHandled /\ hrIn.readOK
        /\ ~(hrIn.resp.status >= 200 /\ hrIn.resp.status <= 299))
    => /\ hrOut.kind = "API error"
       /\ hrOut.status = hrIn.resp.status
       /\ hrOut.msg = IF IsEnvelope(hrIn.resp.body)
                      THEN hrIn.resp.body.val.obj["error"].s
                      ELSE hrIn.resp.body.text

----------------------------------------------------------------------------
(* The claim about Config, under SpecConfig *)

\* C10: after any sequence of UpdateTokens and ClearAuth (and Save and Load),
\* IsAuthenticated() is true exactly when access token and refresh token are
\* both non-empty; it is false, with the user email empty, after ClearAuth,
\* and true after UpdateTokens with two non-empty tokens.
C10_AuthenticatedIffBothTokens ==
    /\ IsAuthenticated(cfg) <=> (cfg.AccessToken # "" /\ cfg.RefreshToken # "")
    /\ lastOp.op = "ClearAuth" => ~IsAuthenticated(cfg) /\ cfg.UserEmail = ""
    /\ lastOp.op = "UpdateTokens" =>
          /\ Creds(cfg) = [AccessToken |-> lastOp.args[1],
                           RefreshToken |-> lastOp.args[2],
                           UserEmail |-> lastOp.args[3]]
          /\ IsAuthenticated(cfg) <=> (lastOp.args[1] # "" /\ lastOp.args[2] # "")

C10_Witness ==
    /\ lastOp.op = "ClearAuth"
    /\ disk.state = "json"
    /\ IsAuthenticated(Load(disk))
    /\ Load(disk).UserEmail = OldEmail

----------------------------------------------------------------------------
(* The claims about the stored credentials: SpecConfig and Spec *)

\* C11: a Config written by a successful Save is what Load returns, field by
\* field, for every Config value (empty tokens and zero-valued default_*
\* fields included); and two Loads with no write in between return the same
\* value.
C11_SaveLoadRoundTrip ==
    /\ fileHist.saved =>
          \A i \in DOMAIN fileHist.loads :
              \A f \in ConfigFields : fileHist.loads[i][f] = fileHist.value[f]
    /\ Len(fileHist.loads) = 2 => fileHist.loads[1] = fileHist.loads[2]

C11_Witness ==
    /\ fileHist.saved
    /\ Len(fileHist.loads) = 2
    /\ fileHist.value.AccessToken = ""
    /\ fileHist.value.DefaultCompute = 0
    /\ fileHist.value.DefaultCloud # ""
    /\ cfg = fileHist.value

\* the file holds the credentials the process has in memory
Persisted == disk.state = "json" /\ Creds(Load(disk)) = Creds(cfg)

\* the commands that end by storing credentials themselves
StoringCommands == {"login", "login --github", "logout"}

\* C12: when a password login, a GitHub login or a logout ends without error,
\* and when a refresh cycle has succeeded, the file holds the credentials the
\* process has in memory; and when the Save of a login or a logout fails, the
\* command ends with the error "failed to save config".
C12_CredentialsPersisted ==
    /\ (pc = "exit" /\ cmd \in StoringCommands /\ out = "")
          => Persisted
    /\ (cycle.state = "ok" /\ pc \in {"retry", "returned"})
          => Persisted
    /\ (pc = "exit" /\ cmd \in StoringCommands /\ saveHow \notin {None, "ok"})
          => out = "failed to save config"

C12_Witness ==
    /\ pc = "exit"
    /\ cmd = "login --github"
    /\ out = ""
    /\ entry.cfg = LoggedIn
    /\ Creds(cfg) = [AccessToken |-> NewAccess, RefreshToken |-> NewRefresh,
                     UserEmail |-> NewEmail]

----------------------------------------------------------------------------
(* The claims about runGithubLogin, under SpecGithub and SpecGithubFair *)

\* C13 (as claimed): during one runGithubLogin tokenChan receives at most one
\* value, whatever requests reach /callback and whatever the server does
\* (bind failure, Serve error).
C13_AtMostOneResult == sends <= 1

\* C14 (as claimed): once the bind has succeeded, the listener is closed when
\* runGithubLogin has returned, on every return path.
C14_ListenerReleased ==
    (pc = "exit" /\ cmd = "login --github" /\ entry.bind = "ok") => srv # "serving"

\* C15: when the bind fails, startCallbackServer has put the startup error on
\* tokenChan and has returned (runGithubLogin goes on to GetGithubAuthURL);
\* runGithubLogin then ends with an error, never with success, and leaves the
\* credentials in memory and in the file as they were.
C15_BindFailure ==
    (cmd = "login --github" /\ entry.bind = "failed")
    => /\ srv = "nil"
       /\ sends = 1
       /\ pc # "gh_bind"
       /\ pc = "gh_url" => tokenChan = <<ErrResult("failed to start callback server")>>
       /\ pc = "gh_shutdown" => result.val = ErrResult("failed to start callback server")
       /\ pc = "exit" => out \in {"failed to get GitHub auth URL", "GitHub login failed"}
       /\ cfg = entry.cfg
       /\ disk = entry.disk

C15_Witness ==
    /\ cmd = "login --github"
    /\ entry.bind = "failed"
    /\ pc = "exit"
    /\ out = "GitHub login failed"
    /\ IsAuthenticated(entry.cfg)

TimedOut == pc = "exit" /\ out = "authentication timeout - please try again"

\* C16: runGithubLogin always terminates; once it waits in the select with
\* nothing received, either a value is sent on tokenChan or it returns
\* "authentication timeout"; and when it has returned that error the listener
\* is closed and the credentials in memory and in the file are as at entry.
C16_Terminates ==
    /\ GhRunning ~> (pc = "exit")
    /\ (pc = "gh_select" /\ sends = 0) ~> (sends > 0 \/ TimedOut)
    /\ [](TimedOut => /\ srv # "serving"
                      /\ cfg = entry.cfg
                      /\ disk = entry.disk)

C16_Witness ==
    /\ TimedOut
    /\ entry.bind = "ok"
    /\ srv = "closed"
    /\ sends = 0
    /\ IsAuthenticated(cfg)

\* the requests to /callback whose handler has sent on tokenChan
Pushed == {i \in DOMAIN calls : calls[i].pushed = 1}

\* the payload decodes into the handler's tokenResponse
Decodes(payload) == ~DecodeFails(payload, CallbackTypeErr(payload.val))

\* C17 (as claimed): every POST to /callback pushes exactly one result onto
\* tokenChan and is answered with status 200; OPTIONS and any other method
\* push nothing.
C17_PostAnswered200 ==
    \A i \in DOMAIN calls :
        IF calls[i].method = "POST"
        THEN calls[i].pushed = 1 /\ calls[i].status = 200
        ELSE calls[i].pushed = 0

\* C17 (amended): a POST to /callback is answered only after its one send on
\* tokenChan has completed, with 200 when the payload decoded (the tokens were
\* sent) and with 400 when it did not (a decode error was sent); while the
\* buffer is full the handler waits, with nothing sent and nothing answered.
\* OPTIONS is answered 200 and any other method 405, with nothing sent.  The
\* values tokenChan has received are these sends, the startup error and the
\* Serve error.
C17_PostPushesThenAnswers ==
    /\ \A i \in DOMAIN calls :
          CASE calls[i].method = "OPTIONS" ->
                  calls[i].pushed = 0 /\ calls[i].st = "answered" /\ calls[i].status = 200
            [] calls[i].method = "POST" /\ calls[i].st = "answered" ->
                  /\ calls[i].pushed = 1
                  /\ calls[i].status = IF Decodes(calls[i].payload) THEN 200 ELSE 400
            [] calls[i].method = "POST" /\ calls[i].st = "blocked" ->
                  calls[i].pushed = 0 /\ calls[i].status = 0
            [] OTHER ->
                  calls[i].pushed = 0 /\ calls[i].st = "answered" /\ calls[i].status = 405
    /\ sends = Cardinality(Pushed) + (IF serveErr = "sent" THEN 1 ELSE 0)
                                   + (IF entry.bind = "failed" THEN 1 ELSE 0)

C17_Witness ==
    /\ Len(calls) = 2
    /\ calls[1].method = "POST" /\ ~Decodes(calls[1].payload)
    /\ calls[1].status = 400 /\ calls[1].pushed = 1
    /\ calls[2].method = "POST" /\ Decodes(calls[2].payload)
    /\ calls[2].status = 200 /\ calls[2].pushed = 1

----------------------------------------------------------------------------
(* The claims about the Formatter, under SpecFormat *)

Records == ConvertToRecords(fmtIn.data).records

\* the key sets getOrderedHeadersFromRecord has a curated order for
CuratedShapes ==
    {{"organization", "role", "is_default"},
     {"cloud_provider", "region", "zone"},
     {"version", "is_default"},
     {"name", "cloud_provider", "region", "kubernetes_version", "compute_quota",
      "memory_quota_gb", "status"}}

MatchesNoShape(record) == \A shape \in CuratedShapes : ~(shape \subseteq DOMAIN record)

\* h lists every key of S once, in alphabetical order
IsSortedListOf(h, S) ==
    /\ Len(h) = Cardinality(S)
    /\ {h[j] : j \in DOMAIN h} = S
    /\ \A i, j \in DOMAIN h : i < j => Rank(h[i]) < Rank(h[j])

\* C18: for a record whose keys are exactly organization, role, is_default,
\* getOrderedHeadersFromRecord returns them in this order; for a record that
\* matches no curated shape it returns all its keys in alphabetical order;
\* and the header row CSV writes, and the one table sets (title-cased), follow
\* this order for the first record.
C18_HeaderOrder ==
    \A i \in DOMAIN Records :
        LET h == GetOrderedHeadersFromRecord(Records[i])
        IN  /\ DOMAIN Records[i] = {"organization", "role", "is_default"}
                  => h = <<"organization", "role", "is_default">>
            /\ MatchesNoShape(Records[i]) => IsSortedListOf(h, DOMAIN Records[i])
            /\ (i = 1 /\ fmtOut.done /\ fmtOut.hasHeader)
                  => /\ Len(fmtOut.header) = Len(h)
                     /\ \A j \in DOMAIN h :
                           fmtOut.header[j] = IF fmtIn.format = "table"
                                              THEN Title(h[j]) ELSE h[j]
            /\ (i = 1 /\ fmtOut.done)
                  => (fmtOut.hasHeader <=> (fmtIn.format = "table" \/ ~fmtIn.noHeaders))

C18_Witness ==
    /\ fmtOut.done
    /\ fmtIn.format = "csv"
    /\ Len(Records) = 2
    /\ DOMAIN Records[1] = {"organization", "role", "is_default"}
    /\ DOMAIN Records[2] = {"ID", "role"}
    /\ fmtOut.header = <<"organization", "role", "is_default">>

\* the row of record i in the column order of the first record
RowInHeaderOrder(i) ==
    LET h == GetOrderedHeadersFromRecord(Records[1])
    IN  [j \in DOMAIN h |-> Sprintf(Lookup(Records[i], h[j]))]

\* C19 (as claimed): CSV and table output is a function of the input, and
\* every data row holds the record's values in the column order
\* getOrderedHeadersFromRecord gives for the first record, with and without
\* header row.
C19_RowsInHeaderOrder ==
    fmtOut.done => \A i \in DOMAIN fmtOut.rows : fmtOut.rows[i] = RowInHeaderOrder(i)

\* the fields a rendered row shows a value of
FieldsOf(row) == {row[j].arg.key : j \in {n \in DOMAIN row : ~row[n].arg.nil}}

\* C20 (as claimed): in table and CSV output every rendered record has the
\* same fields, and every field that occurs in some record of the input list
\* is a column of the output.
C20_AllFieldsAreColumns ==
    (fmtOut.done /\ Len(Records) > 0)
    => /\ Len(fmtOut.rows) = Len(Records)
       /\ \A i \in DOMAIN fmtOut.rows :
             FieldsOf(fmtOut.rows[i]) = UNION {DOMAIN Records[r] : r \in DOMAIN Records}

\* a value that is not a nil pointer and that the claim counts as an item
NonNilItem(item) ==
    \/ item.kind \in {"struct", "map"}
    \/ item.kind = "ptr" /\ ~item.isNil

\* record r holds the fields of the value numbered i
RecordOf(r, i) == \A k \in DOMAIN r : r[k] = Val(i, k)

\* C21 (as claimed): convertToRecords succeeds for four shapes of input: a
\* single struct and a pointer to a struct give one record each, a
\* map[string]interface{} passed on its own gives one record equal to the map,
\* and a list of n non-nil items gives n records in the order of the input.
C21_FourShapes ==
    fmtOut.done =>
        LET d == fmtIn.data
            c == ConvertToRecords(d)
        IN  /\ (d.kind \in {"struct", "ptr"} /\ NonNilItem(d))
                => fmtOut.err = "" /\ Len(c.records) = 1 /\ RecordOf(c.records[1], d.i)
            /\ d.kind = "map"
                => fmtOut.err = "" /\ c.records = <<d.m>>
            /\ (d.kind = "slice" /\ \A n \in DOMAIN d.items : NonNilItem(d.items[n]))
                => /\ fmtOut.err = ""
                   /\ Len(c.records) = Len(d.items)
                   /\ \A n \in DOMAIN d.items : RecordOf(c.records[n], n)

\* C22: rendering an empty list writes exactly "No data found\n" in table
\* mode and nothing in CSV mode, and succeeds in both, whether or not the
\* headers are suppressed.
C22_EmptyList ==
    (fmtOut.done /\ fmtIn.data = SliceV(<<>>)) =>
        /\ fmtOut.err = ""
        /\ ~fmtOut.hasHeader
        /\ fmtOut.rows = <<>>
        /\ fmtOut.text = IF fmtIn.format = "table" THEN "No data found\n" ELSE ""

C22_Witness ==
    /\ fmtOut.done
    /\ fmtIn.data = SliceV(<<>>)
    /\ fmtIn.format = "table"
    /\ fmtIn.noHeaders
    /\ fmtOut.text = "No data found\n"

----------------------------------------------------------------------------
(* redactSensitiveJSON (internal/api/client.go), under SpecRedact.          *)
(*                                                                          *)
(* The bytes, in and out, are the JSON text by its structure: a string, a   *)
(* number by its literal, an array by its elements in order, an object by   *)
(* its members (the order of the members, which json.Marshal sorts, and the *)
(* white space are not kept), or a text that is no JSON.                    *)
Str(s)    == [t |-> "string", s |-> s]
Num(lit)  == [t |-> "number", lit |-> lit]
Arr(a)    == [t |-> "array", a |-> a]
Obj(m)    == [t |-> "object", m |-> m]
NotJSON   == [t |-> "invalid", text |-> "not-json"]

Redacted == Str("***REDACTED***")

\* number literals: one a float64 holds exactly, an integer above 2^53 that
\* it rounds, and one beyond its range
NumberLiterals == {"42", "9007199254740993", "1e400"}

Leaves == {Str("keep")} \cup {Num(l) : l \in NumberLiterals}

\* an object with the members given: absent for none
Absent == [t |-> "absent"]
Members(token, safe, nested) ==
    LET all == [k \in {"Token", "safe", "nested"} |->
                   CASE k = "Token" -> token [] k = "safe" -> safe [] OTHER -> nested]
    IN  Obj([k \in {x \in DOMAIN all : all[x] # Absent} |-> all[k]])

\* the documents with at most d containers nested: objects with a sensitive
\* member "Token", a member "safe" and a member "nested", and arrays
RECURSIVE Docs(_)
Docs(d) ==
    IF d = 0 THEN Leaves
    ELSE LET sub == Docs(d - 1)
         IN  Leaves
             \cup {Members(token, safe, nested) :
                      token \in {Absent, Str("secret")},
                      safe \in {Absent, Str("keep"), Num("9007199254740993")},
                      nested \in {Absent} \cup sub}
             \cup {Arr(<<>>)}
             \cup {Arr(<<c>>) : c \in sub}
             \cup {Arr(<<Str("first"), c>>) : c \in sub}

\* strconv.ParseFloat(s, 64) as convertNumber calls it: the float64, by its
\* shortest decimal, or a range error
ParseFloat(lit) ==
    CASE lit = "1e400"            -> [ok |-> FALSE, f |-> "+Inf"]
      [] lit = "9007199254740993" -> [ok |-> TRUE, f |-> "9007199254740992"]
      [] OTHER                    -> [ok |-> TRUE, f |-> lit]

(* json.Unmarshal(raw, &v) into an interface{}: string, float64,            *)
(* []interface{} and map[string]interface{}.  The values:                   *)
Float64(f) == [t |-> "float64", f |-> f]
Slice(a)   == [t |-> "slice", a |-> a]
Map(m)     == [t |-> "map", m |-> m]

\* the value decoded (a number out of range decodes to nil and saves an error)
RECURSIVE Decode(_)
Decode(doc) ==
    CASE doc.t = "number" -> IF ParseFloat(doc.lit).ok
                             THEN Float64(ParseFloat(doc.lit).f)
                             ELSE [t |-> "nil"]
      [] doc.t = "array"  -> Slice([i \in DOMAIN doc.a |-> Decode(doc.a[i])])
      [] doc.t = "object" -> Map([k \in DOMAIN doc.m |-> Decode(doc.m[k])])
      [] OTHER            -> doc

\* the error Unmarshal returns: a syntax error, or the saved error of a
\* number that float64 cannot hold
RECURSIVE UnmarshalErr(_)
UnmarshalErr(doc) ==
    CASE doc.t = "invalid" -> TRUE
      [] doc.t = "number"  -> ~ParseFloat(doc.lit).ok
      [] doc.t = "array"   -> \E i \in DOMAIN doc.a : UnmarshalErr(doc.a[i])
      [] doc.t = "object"  -> \E k \in DOMAIN doc.m : UnmarshalErr(doc.m[k])
      [] OTHER             -> FALSE

SensitiveKeys ==
    {"password", "pass", "pwd", "access_token", "refresh_token", "token", "authorization"}

\* strings.ToLower of a key
LowerKey(key) ==
    CASE key = "Token" -> "token"
      [] key = "Authorization" -> "authorization"
      [] OTHER -> key

IsSensitiveKey(key) == LowerKey(key) \in SensitiveKeys

\* redactRecursive(&v)
RECURSIVE RedactRecursive(_)
RedactRecursive(v) ==
    CASE v.t = "map" ->
            Map([k \in DOMAIN v.m |->
                    IF IsSensitiveKey(k) THEN Redacted ELSE RedactRecursive(v.m[k])])
      [] v.t = "slice" -> Slice([i \in DOMAIN v.a |-> RedactRecursive(v.a[i])])
      [] OTHER -> v

\* strconv.FormatFloat as json.Marshal calls it: the shortest decimal, in
\* plain notation below 1e21
FormatFloat(f) == f

\* json.Marshal(v)
RECURSIVE Marshal(_)
Marshal(v) ==
    CASE v.t = "float64" -> Num(FormatFloat(v.f))
      [] v.t = "slice"   -> Arr([i \in DOMAIN v.a |-> Marshal(v.a[i])])
      [] v.t = "map"     -> Obj([k \in DOMAIN v.m |-> Marshal(v.m[k])])
      [] OTHER           -> v

\* redactSensitiveJSON(raw)
RedactSensitiveJSON(raw) ==
    IF UnmarshalErr(raw) THEN raw
    ELSE Marshal(RedactRecursive(Decode(raw)))

InitRedact ==
    /\ redIn \in Docs(MaxDepth) \cup {NotJSON}
    /\ redOut = NotRedacted
    /\ cfg = ZeroConfig
    /\ disk = FileAbsent
    /\ InitIdle
    /\ InitConfigIdle
    /\ InitHandleIdle
    /\ InitGithubIdle
    /\ InitFormatIdle
    /\ InitConcIdle

Redact ==
    /\ ~redOut.done
    /\ redOut' = [done |-> TRUE, raw |-> RedactSensitiveJSON(redIn)]
    /\ UNCHANGED <<cfg, disk, transportVars, configVars, handleVars, githubVars,
                   formatVars, concVars, redIn>>

NextRedact == Redact

SpecRedact == InitRedact /\ [][NextRedact]_vars

----------------------------------------------------------------------------
(* The claims about redactSensitiveJSON, under SpecRedact *)

\* no member with a sensitive key holds anything but the marker, at any depth
RECURSIVE NoSecret(_)
NoSecret(doc) ==
    CASE doc.t = "object" ->
            \A k \in DOMAIN doc.m :
                IF IsSensitiveKey(k) THEN doc.m[k] = Redacted ELSE NoSecret(doc.m[k])
      [] doc.t = "array" -> \A i \in DOMAIN doc.a : NoSecret(doc.a[i])
      [] OTHER -> TRUE

\* C23 (as claimed): for every valid JSON document the output of
\* redactSensitiveJSON holds no sensitive key (password, pass, pwd,
\* access_token, refresh_token, token, authorization, in any case) with a
\* value other than "***REDACTED***", at any depth, inside arrays of objects
\* and arrays nested in arrays.
C23_NoSecretLeft ==
    (redOut.done /\ redIn # NotJSON) => NoSecret(redOut.raw)

\* b is a but for the values of the sensitive keys
RECURSIVE SameButSecrets(_, _)
SameButSecrets(a, b) ==
    CASE a.t = "object" ->
            /\ b.t = "object"
            /\ DOMAIN b.m = DOMAIN a.m
            /\ \A k \in DOMAIN a.m : IsSensitiveKey(k) \/ SameButSecrets(a.m[k], b.m[k])
      [] a.t = "array" ->
            /\ b.t = "array"
            /\ Len(b.a) = Len(a.a)
            /\ \A i \in DOMAIN a.a : SameButSecrets(a.a[i], b.a[i])
      [] OTHER -> b = a

\* C24 (as claimed): redactSensitiveJSON changes nothing but the values of
\* the sensitive keys: every other key keeps its value, the nesting and the
\* arrays' length and order are kept, and an input that is not valid JSON is
\* returned unchanged.
C24_OnlySecretsChange ==
    redOut.done => SameButSecrets(redIn, redOut.raw)

----------------------------------------------------------------------------
(* SpecConcurrent: two goroutines call doRequest on one Client, and so on   *)
(* one *config.Config and one file, with nothing that orders them.  Each    *)
(* action is one statement of doRequest, refreshToken or the Config methods *)
(* they call: the unsynchronised reads and writes of the fields of the      *)
(* Config interleave statement by statement.                                *)

\* the fields UpdateTokens and ClearAuth assign, in the order of assignment
CredFields == <<"AccessToken", "RefreshToken", "UserEmail">>

\* the tokens the refresh endpoint issues to goroutine t
IssuedTo(t) ==
    [AccessToken |-> IF t = 1 THEN NewAccess ELSE "a2",
     RefreshToken |-> IF t = 1 THEN NewRefresh ELSE "r2",
     UserEmail |-> NewEmail]

\* what the cycle of goroutine t assigns: UpdateTokens with the tokens of the
\* response, or ClearAuth
Assigned(t, outcome) == IF outcome = "ok" THEN IssuedTo(t) ELSE NoCreds

\* an assignment that leaves the email as it is
AssignFieldButEmail(c, field, creds) ==
    IF field = "UserEmail" THEN c ELSE [c EXCEPT ![field] = creds[field]]

\* one assignment of UpdateTokens or ClearAuth: c.<field> = <value>
AssignField(c, field, creds) == [c EXCEPT ![field] = creds[field]]

InitConcurrent ==
    /\ cfg = LoggedIn
    /\ disk = FileOf(LoggedIn)
    /\ gor = [t \in Goroutines |-> [NoGoroutine EXCEPT !.pc = "first"]]
    /\ posts = <<>>
    /\ order = <<>>
    /\ InitIdle
    /\ InitConfigIdle
    /\ InitHandleIdle
    /\ InitGithubIdle
    /\ InitFormatIdle
    /\ InitRedactIdle

ConcFrame ==
    UNCHANGED <<transportVars, configVars, handleVars, githubVars, formatVars, redactVars>>

\* doRequest: the first Do returns a response; the condition of the refresh
\* reads c.config.RefreshToken
ConcFirstResponse(t, status) ==
    /\ gor[t].pc = "first"
    /\ gor' = [gor EXCEPT ![t].first = status,
                          ![t].pc = IF status = 401 /\ cfg.RefreshToken # ""
                                    THEN "build" ELSE "returned"]
    /\ UNCHANGED <<cfg, disk, posts, order>>
    /\ ConcFrame

\* refreshToken: the payload is built from c.config.RefreshToken and posted
ConcPostRefresh(t) ==
    /\ gor[t].pc = "build"
    /\ posts' = Append(posts, [by |-> t, token |-> cfg.RefreshToken])
    /\ gor' = [gor EXCEPT ![t].pc = "refresh"]
    /\ UNCHANGED <<cfg, disk, order>>
    /\ ConcFrame

\* refreshToken: the refresh endpoint answers 200 with tokens, or another
\* status; UpdateTokens or ClearAuth is called
ConcRefreshResponse(t, outcome) ==
    /\ gor[t].pc = "refresh"
    /\ gor' = [gor EXCEPT ![t].outcome = outcome, ![t].pc = "assign", ![t].field = 1]
    /\ UNCHANGED <<cfg, disk, posts, order>>
    /\ ConcFrame

\* UpdateTokens, ClearAuth: the next assignment
ConcAssign(t) ==
    /\ gor[t].pc = "assign"
    /\ cfg' = AssignField(cfg, CredFields[gor[t].field], Assigned(t, gor[t].outcome))
    /\ gor' = IF gor[t].field < Len(CredFields)
              THEN [gor EXCEPT ![t].field = gor[t].field + 1]
              ELSE [gor EXCEPT ![t].pc = "marshal"]
    /\ UNCHANGED <<disk, posts, order>>
    /\ ConcFrame

\* Save: json.MarshalIndent(c) reads the Config
ConcMarshal(t) ==
    /\ gor[t].pc = "marshal"
    /\ gor' = [gor EXCEPT ![t].data = cfg, ![t].pc = "write"]
    /\ UNCHANGED <<cfg, disk, posts, order>>
    /\ ConcFrame

\* Save: os.WriteFile; refreshToken returns (a failed Save is ignored after
\* ClearAuth and is an error after UpdateTokens)
ConcWriteFile(t, how) ==
    /\ gor[t].pc = "write"
    /\ disk' = Save(gor[t].data, disk, how)
    /\ order' = Append(order, t)
    /\ gor' = [gor EXCEPT ![t].how = how,
                          ![t].pc = IF gor[t].outcome = "ok" /\ SaveErr(how) = ""
                                    THEN "retry" ELSE "returned"]
    /\ UNCHANGED <<cfg, posts>>
    /\ ConcFrame

\* doRequest: the retry reads c.config.AccessToken for its header; the second
\* Do returns
ConcRetry(t) ==
    /\ gor[t].pc = "retry"
    /\ gor' = [gor EXCEPT ![t].auth = cfg.AccessToken, ![t].pc = "returned"]
    /\ UNCHANGED <<cfg, disk, posts, order>>
    /\ ConcFrame

NextConcurrent ==
    \/ \E t \in Goroutines, status \in {200, 401} : ConcFirstResponse(t, status)
    \/ \E t \in Goroutines : ConcPostRefresh(t)
    \/ \E t \in Goroutines, outcome \in {"ok", "rejected"} : ConcRefreshResponse(t, outcome)
    \/ \E t \in Goroutines : ConcAssign(t)
    \/ \E t \in Goroutines : ConcMarshal(t)
    \/ \E t \in Goroutines, how \in SaveOutcomes : ConcWriteFile(t, how)
    \/ \E t \in Goroutines : ConcRetry(t)

SpecConcurrent == InitConcurrent /\ [][NextConcurrent]_vars

----------------------------------------------------------------------------
(* The claims about one call of doRequest: Spec and SpecFair *)

\* the calls of Do of one kind the process has made
SendsOf(kind) == {i \in DOMAIN wire : wire[i].kind = kind}

\* doRequest is between its first Do and its return
InDoRequest == pc \in {"first", "refresh", "retry"}

\* the bound on the sends, and what the two 401 answers lead to
AtMostOneCycle ==
    /\ Cardinality(SendsOf("orig")) <= 2
    /\ Cardinality(SendsOf("refresh")) <= 1
    /\ \A i \in DOMAIN wire :
          /\ (wire[i].kind = "orig" /\ wire[i].attempt = 2 /\ wire[i].answer.got = "response")
                => /\ i = Len(wire)
                   /\ pc \in {"returned", "exit"}
                   /\ ret = [resp |-> wire[i].answer.resp, err |-> ""]
          /\ (wire[i].kind = "refresh" /\ wire[i].answer.got = "response"
                /\ wire[i].answer.resp.status = 401)
                => /\ i = Len(wire)
                   /\ pc \in {"returned", "exit"}
                   /\ cycle.state = "failed"
                   /\ ret = [resp |-> NoResp, err |-> "authentication failed"]

\* C25: whatever the server answers, one call of doRequest terminates, after
\* sending the original request at most twice and the refresh request at most
\* once: a 401 answer to the retry is returned as it is, a 401 from the
\* refresh endpoint is a failed refresh, and neither starts another cycle.
C25_Terminates == []AtMostOneCycle /\ (InDoRequest ~> pc = "returned")

C25_Witness ==
    /\ pc = "returned"
    /\ Len(wire) = 3
    /\ wire[3].kind = "orig"
    /\ wire[3].answer.got = "response"
    /\ wire[3].answer.resp.status = 401
    /\ ret.resp.status = 401
    /\ ret.err = ""

\* the first Do has returned and calls for no refresh: an error, a status
\* other than 401, or a 401 while no refresh token is stored
NoRefreshCase ==
    /\ Len(wire) >= 1
    /\ \/ wire[1].answer.got = "error"
       \/ /\ wire[1].answer.got = "response"
          /\ wire[1].answer.resp.status # 401 \/ cfg.RefreshToken = ""

\* C27: a call of doRequest that triggers no refresh (the first response is
\* not a 401, or it is a 401 while the stored refresh token is empty, or the
\* first send fails in the transport) sends exactly one request and no
\* refresh request, and leaves the credentials in memory and on disk as they
\* were before the call.
C27_NoRefreshNoChange ==
    [][(pc = "first" /\ pc' # "first" /\ NoRefreshCase')
          => /\ pc' = "returned"
             /\ Len(wire') = 1
             /\ wire'[1].kind = "orig"
             /\ cycle' = NoCycle
             /\ cfg' = cfg
             /\ disk' = disk]_vars

C27_Witness ==
    /\ pc = "returned"
    /\ Len(wire) = 1
    /\ wire[1].answer.got = "response"
    /\ wire[1].answer.resp.status = 401
    /\ cfg.AccessToken # ""
    /\ cfg.RefreshToken = ""
    /\ cycle = NoCycle
    /\ Creds(Load(disk)) = Creds(cfg)

----------------------------------------------------------------------------
(* The claims about the commands and the stored credentials, under Spec *)

\* the credentials in memory and in the file are those the process started with
AsAtStart ==
    /\ Creds(cfg) = Creds(start.cfg)
    /\ LoadErr(disk) = ""
    /\ Creds(Load(disk)) = Creds(start.cfg)

\* C28 (as claimed): a failed password login leaves the stored credentials
\* unchanged: whenever runLogin returns a 'login failed' error, whatever the
\* server answered, the access token, refresh token and user email in memory
\* and in the file are the same as before the command.
C28_FailedLoginNoChange ==
    (pc = "exit" /\ cmd = "login" /\ out = "login failed") => AsAtStart

\* a login command has returned nil
LoginSucceeded == pc = "exit" /\ cmd \in {"login", "login --github"} /\ out = ""

\* refreshToken has returned nil and the process still runs
RefreshSucceeded == cycle.state = "ok" /\ pc \in {"retry", "returned"}

\* C29 (as claimed): whenever a login flow reports success (runLogin or
\* runGithubLogin returns nil) or a refresh cycle returns success, the stored
\* credentials are authenticated afterwards: the access token and the refresh
\* token taken from the response or the callback payload are both non-empty.
C29_SuccessIsAuthenticated ==
    (LoginSucceeded \/ RefreshSucceeded) => IsAuthenticated(cfg)

\* the file holds credentials that pass IsAuthenticated
FileAuthenticated(d) == LoadErr(d) = "" /\ IsAuthenticated(Load(d))

\* the process loaded its config and found it unauthenticated
StartedUnauthenticated == LoadErr(start.disk) = "" /\ ~IsAuthenticated(start.cfg)

\* whoami and the org, project and tenant commands, of which the processes
\* run whoami and org create
ResourceCommands == Commands \ {"login"}

\* C30: no resource command sends a request while unauthenticated: when
\* IsAuthenticated() is false the command returns the 'not authenticated'
\* error before any HTTP request; a logout leaves the file unauthenticated and
\* nothing but a login that succeeds authenticates it again, so that after a
\* logout every such command fails this way until a login succeeds.
C30_GuardBeforeRequest ==
    /\ (cmd \in ResourceCommands /\ StartedUnauthenticated)
          => (pc = "exit" /\ out = "not authenticated" /\ wire = <<>>)
    /\ (pc = "exit" /\ cmd = "logout" /\ out = "") => ~FileAuthenticated(disk)
    /\ (cmd # None /\ pc = "exit" /\ StartedUnauthenticated /\ ~LoginSucceeded)
          => ~FileAuthenticated(disk)

C30_Witness ==
    /\ ncmd = 2
    /\ start.disk = FileOf(ClearAuth(LoggedIn))
    /\ cmd = "org create"
    /\ pc = "exit"
    /\ out = "not authenticated"
    /\ wire = <<>>

----------------------------------------------------------------------------
(* The claim about concurrent calls of doRequest, under SpecConcurrent *)

AllReturned == \A t \in Goroutines : gor[t].pc = "returned"

\* the refresh requests goroutine t has sent
PostsBy(t) == {i \in DOMAIN posts : posts[i].by = t}

\* both calls got a 401, both cycles ran to their end and every Save wrote
BothCyclesRan ==
    /\ AllReturned
    /\ Len(order) = 2
    /\ \A t \in Goroutines : gor[t].how = "ok"

AssignedTo(field) == {Assigned(t, gor[t].outcome)[field] : t \in Goroutines}

\* the 401 of goroutine t found a refresh token stored, and refreshToken has
\* sent its request
FoundToken(t) ==
    \/ gor[t].pc \in {"refresh", "assign", "marshal", "write", "retry"}
    \/ gor[t].pc = "returned" /\ gor[t].outcome # "none"

====
